---- MODULE Spec2Model ----
(***************************************************************************)
(* The standard-chess position state machine of shakmaty: setup            *)
(* validation, legal move generation, move execution, and the SAN / UCI    *)
(* notation layers that bind text to legal moves.                          *)
(*                                                                         *)
(* Conventions.  Option<T> is a set of at most one element: None is {} and *)
(* Some(x) is {x}.  A Bitboard is a set of squares; iterating a bitboard   *)
(* visits its squares in ascending order.  A MoveList is a sequence.       *)
(***************************************************************************)
EXTENDS Integers, Sequences, FiniteSets, TLC

VARIABLES pos, errors, prev, last, ply

vars == <<pos, errors, prev, last, ply>>

(***************************************************************************)
(* Squares, colours, roles, pieces.                                        *)
(***************************************************************************)
Squares == 0..63

File(s) == s % 8
Rank(s) == s \div 8
Sq(f, r) == r * 8 + f

None == {}
Some(x) == {x}

White == "White"
Black == "Black"
Colors == {White, Black}

Not(color) == IF color = White THEN Black ELSE White
fold(color, w, b) == IF color = White THEN w ELSE b

Pawn == "Pawn"
Knight == "Knight"
Bishop == "Bishop"
Rook == "Rook"
Queen == "Queen"
King == "King"
Roles == {Pawn, Knight, Bishop, Rook, Queen, King}

PieceOf(color, role) == [color |-> color, role |-> role]

Abs(x) == IF x < 0 THEN -x ELSE x
Max2(a, b) == IF a > b THEN a ELSE b
Min2(a, b) == IF a < b THEN a ELSE b
Sgn(x) == IF x > 0 THEN 1 ELSE IF x < 0 THEN -1 ELSE 0

\* Square::offset: None when the sum leaves the board.
offset(s, delta) == IF s + delta \in Squares THEN Some(s + delta) ELSE None

\* Square::combine: the file of the receiver with the rank of the argument.
combine(a, b) == Sq(File(a), Rank(b))

\* Square::distance: the number of king steps between two squares.
distance(a, b) == Max2(Abs(File(a) - File(b)), Abs(Rank(a) - Rank(b)))

\* Bitboard iteration order, as a sequence.
RECURSIVE Asc(_)
Asc(S) ==
    IF S = {} THEN <<>>
    ELSE LET m == CHOOSE x \in S : \A y \in S : x <= y
         IN <<m>> \o Asc(S \ {m})

first(S) == IF S = {} THEN None ELSE Some(CHOOSE x \in S : \A y \in S : x <= y)
lastSq(S) == IF S = {} THEN None ELSE Some(CHOOSE x \in S : \A y \in S : x >= y)
single_square(S) == IF Cardinality(S) = 1 THEN S ELSE None
more_than_one(S) == Cardinality(S) > 1

RECURSIVE Concat(_)
Concat(ss) == IF Len(ss) = 0 THEN <<>> ELSE Head(ss) \o Concat(Tail(ss))

Range(f) == {f[i] : i \in DOMAIN f}

rank(r) == {s \in Squares : Rank(s) = r}
relative_rank(color, r) == rank(fold(color, r, 7 - r))
BACKRANKS == rank(0) \cup rank(7)
relative_shift(color, S, n) ==
    {t \in Squares : fold(color, t - n, t + n) \in S}

A1 == 0
C1 == 2
D1 == 3
E1 == 4
F1 == 5
G1 == 6
H1 == 7
A8 == 56
C8 == 58
D8 == 59
E8 == 60
F8 == 61
G8 == 62
H8 == 63

(***************************************************************************)
(* Attack primitives.                                                      *)
(***************************************************************************)
OnBoard(f, r) == f \in 0..7 /\ r \in 0..7

StepTargets(s, deltas) ==
    {Sq(File(s) + d[1], Rank(s) + d[2]) :
        d \in {e \in deltas : OnBoard(File(s) + e[1], Rank(s) + e[2])}}

KingDeltas == {<<1, 0>>, <<1, 1>>, <<0, 1>>, <<-1, 1>>,
               <<-1, 0>>, <<-1, -1>>, <<0, -1>>, <<1, -1>>}
KnightDeltas == {<<1, 2>>, <<2, 1>>, <<2, -1>>, <<1, -2>>,
                 <<-1, -2>>, <<-2, -1>>, <<-2, 1>>, <<-1, 2>>}
RookDirs == {<<1, 0>>, <<-1, 0>>, <<0, 1>>, <<0, -1>>}
BishopDirs == {<<1, 1>>, <<1, -1>>, <<-1, 1>>, <<-1, -1>>}

KingTab == [s \in Squares |-> StepTargets(s, KingDeltas)]
KnightTab == [s \in Squares |-> StepTargets(s, KnightDeltas)]
PawnTab == [c \in Colors |-> [s \in Squares |->
    StepTargets(s, {<<-1, fold(c, 1, -1)>>, <<1, fold(c, 1, -1)>>})]]

king_attacks(s) == KingTab[s]
knight_attacks(s) == KnightTab[s]
pawn_attacks(color, s) == PawnTab[color][s]

\* The squares from s towards d up to the edge, nearest first.
RaySeq(s, d) ==
    LET n == CHOOSE k \in 0..7 :
                 /\ \A i \in 1..k : OnBoard(File(s) + i * d[1], Rank(s) + i * d[2])
                 /\ ~OnBoard(File(s) + (k + 1) * d[1], Rank(s) + (k + 1) * d[2])
    IN [i \in 1..n |-> Sq(File(s) + i * d[1], Rank(s) + i * d[2])]

RookRays == [s \in Squares |-> {RaySeq(s, d) : d \in RookDirs}]
BishopRays == [s \in Squares |-> {RaySeq(s, d) : d \in BishopDirs}]

\* Along every ray, the squares up to and including the first occupied one.
SlideAttacks(rays, occupied) ==
    UNION {{r[i] : i \in {j \in DOMAIN r : \A k \in 1..(j - 1) : r[k] \notin occupied}} :
              r \in rays}

rook_attacks(s, occupied) == SlideAttacks(RookRays[s], occupied)
bishop_attacks(s, occupied) == SlideAttacks(BishopRays[s], occupied)
queen_attacks(s, occupied) == rook_attacks(s, occupied) \cup bishop_attacks(s, occupied)

IsAligned(a, b) ==
    /\ a # b
    /\ \/ File(a) = File(b)
       \/ Rank(a) = Rank(b)
       \/ Abs(File(a) - File(b)) = Abs(Rank(a) - Rank(b))

DirOf(a, b) == <<Sgn(File(b) - File(a)), Sgn(Rank(b) - Rank(a))>>

RayTab == [a \in Squares |-> [b \in Squares |->
    IF IsAligned(a, b)
    THEN {a} \cup Range(RaySeq(a, DirOf(a, b))) \cup Range(RaySeq(a, DirOf(b, a)))
    ELSE {}]]

BetweenTab == [a \in Squares |-> [b \in Squares |->
    IF IsAligned(a, b)
    THEN {c \in Range(RaySeq(a, DirOf(a, b))) : distance(a, c) < distance(a, b)}
    ELSE {}]]

ray(a, b) == RayTab[a][b]
between(a, b) == BetweenTab[a][b]
aligned(a, b, c) == c \in ray(a, b)

DARK_SQUARES == {s \in Squares : (File(s) + Rank(s)) % 2 = 0}
LIGHT_SQUARES == {s \in Squares : (File(s) + Rank(s)) % 2 = 1}

(***************************************************************************)
(* Board: square -> Option<Piece>, plus the promoted shadow set.           *)
(***************************************************************************)
EmptyBoard == [pieces |-> [s \in Squares |-> None], promoted |-> {}]

piece_at(board, s) == board.pieces[s]
role_at(board, s) == {p.role : p \in board.pieces[s]}
occupied(board) == {s \in Squares : board.pieces[s] # {}}
by_color(board, color) == {s \in Squares : \E p \in board.pieces[s] : p.color = color}
by_role(board, role) == {s \in Squares : \E p \in board.pieces[s] : p.role = role}
by_piece(board, color, role) == {s \in Squares : board.pieces[s] = {PieceOf(color, role)}}
pawns(board) == by_role(board, Pawn)
knights(board) == by_role(board, Knight)
bishops(board) == by_role(board, Bishop)
rooks(board) == by_role(board, Rook)
kings(board) == by_role(board, King)
rooks_and_queens(board) == {s \in Squares : \E p \in board.pieces[s] : p.role \in {Rook, Queen}}
bishops_and_queens(board) == {s \in Squares : \E p \in board.pieces[s] : p.role \in {Bishop, Queen}}
sliders(board) == {s \in Squares : \E p \in board.pieces[s] : p.role \in {Bishop, Rook, Queen}}
king_of(board, color) == first(by_piece(board, color, King))

discard_piece_at(board, s) ==
    [pieces |-> [board.pieces EXCEPT ![s] = None],
     promoted |-> board.promoted \ {s}]

set_piece_at(board, s, piece, promoted) ==
    [pieces |-> [board.pieces EXCEPT ![s] = Some(piece)],
     promoted |-> IF promoted THEN board.promoted \cup {s} ELSE board.promoted \ {s}]

\* Board::attacks_to: the pieces of `attacker` that attack `sq` under `occ`.
attacks_to(board, sq, attacker, occ) ==
    {s \in Squares : \E p \in board.pieces[s] :
        /\ p.color = attacker
        /\ \/ p.role \in {Rook, Queen} /\ s \in rook_attacks(sq, occ)
           \/ p.role \in {Bishop, Queen} /\ s \in bishop_attacks(sq, occ)
           \/ p.role = Knight /\ s \in knight_attacks(sq)
           \/ p.role = King /\ s \in king_attacks(sq)
           \/ p.role = Pawn /\ s \in pawn_attacks(Not(attacker), sq)}

(***************************************************************************)
(* Moves.                                                                  *)
(***************************************************************************)
Normal(role, from, capture, to, promotion) ==
    [kind |-> "Normal", role |-> role, from |-> from, capture |-> capture,
     to |-> to, promotion |-> promotion]
EnPassant(from, to) == [kind |-> "EnPassant", from |-> from, to |-> to]
Castle(king, rook) == [kind |-> "Castle", king |-> king, rook |-> rook]
Put(role, to) == [kind |-> "Put", role |-> role, to |-> to]

(***************************************************************************)
(* Setup accessors and the castling table.                                 *)
(***************************************************************************)
KingSide == 0
QueenSide == 1
CastlingSides == {KingSide, QueenSide}

\* `color as usize`: Black is 0 and White is 1.
ColorIdx(color) == fold(color, 1, 0)

king_to(side, color) ==
    IF side = KingSide THEN fold(color, G1, G8) ELSE fold(color, C1, C8)
rook_to(side, color) ==
    IF side = KingSide THEN fold(color, F1, F8) ELSE fold(color, D1, D8)

us(p) == by_color(p.board, p.turn)
our(p, role) == by_piece(p.board, p.turn, role)
them(p) == by_color(p.board, Not(p.turn))
their(p, role) == by_piece(p.board, Not(p.turn), role)

\* The table keeps Rust's indices 0..3.
Idx0(t) == [i \in 0..3 |-> t[i + 1]]

CastlingEmpty == [rook |-> [i \in 0..3 |-> None], path |-> [i \in 0..3 |-> {}]]

CastlingDefault ==
    [rook |-> Idx0(<<Some(H8), Some(A8), Some(H1), Some(A1)>>),
     path |-> Idx0(<<{61, 62}, {57, 58, 59}, {5, 6}, {1, 2, 3}>>)]

CastlingRights(castling) == UNION {castling.rook[i] : i \in 0..3}

\* One colour's pass of the loop of Castling::from_setup.
CastlingForColor(castling, setup, color) ==
    LET kingOpt == king_of(setup.board, color)
    IN IF kingOpt = None THEN castling
       ELSE
         LET king == CHOOSE k \in kingOpt : TRUE
         IN IF File(king) = 0 \/ File(king) = 7 \/ Rank(king) # fold(color, 0, 7)
            THEN castling
            ELSE
              LET sideBB == (setup.castling_rights \cap rooks(setup.board))
                              \cap by_color(setup.board, color)
                              \cap relative_rank(color, 0)
                  a_side == {r \in first(sideBB) : File(r) < File(king)}
                  h_side == {r \in lastSq(sideBB) : File(king) < File(r)}
                  qIdx == ColorIdx(color) * 2 + QueenSide
                  kIdx == ColorIdx(color) * 2 + KingSide
                  PathOf(rk, side) ==
                      (((between(king, rk) \cup {rook_to(side, color)})
                          \cup {king_to(side, color)}) \ {king}) \ {rk}
                  c1 == IF a_side = None THEN castling
                        ELSE LET rk == CHOOSE r \in a_side : TRUE
                             IN [rook |-> [castling.rook EXCEPT ![qIdx] = Some(rk)],
                                 path |-> [castling.path EXCEPT ![qIdx] = PathOf(rk, QueenSide)]]
              IN IF h_side = None THEN c1
                 ELSE LET rk == CHOOSE r \in h_side : TRUE
                      IN [rook |-> [c1.rook EXCEPT ![kIdx] = Some(rk)],
                          path |-> [c1.path EXCEPT ![kIdx] = PathOf(rk, KingSide)]]

\* Castling::from_setup: the table, and whether it reproduces the rights asked for.
CastlingFromSetup(setup) ==
    LET castling == CastlingForColor(CastlingForColor(CastlingEmpty, setup, Black),
                                     setup, White)
    IN [castling |-> castling,
        ok |-> CastlingRights(castling) = setup.castling_rights]

\* discard_rook that leaves every slot as it is.
discard_rook_kept(castling, square) == castling

discard_rook(castling, square) ==
    [castling EXCEPT !.rook = [i \in 0..3 |-> castling.rook[i] \ {square}]]

\* discard_side that leaves every slot as it is.
discard_side_kept(castling, color) == castling

discard_side(castling, color) ==
    [castling EXCEPT !.rook = [i \in 0..3 |->
        IF i = ColorIdx(color) * 2 \/ i = ColorIdx(color) * 2 + 1
        THEN None ELSE castling.rook[i]]]

castling_rook(castling, color, side) == castling.rook[2 * ColorIdx(color) + side]
castling_path(castling, color, side) == castling.path[2 * ColorIdx(color) + side]

(***************************************************************************)
(* Move generation (position.rs).                                          *)
(***************************************************************************)
FlatMap(seq, F(_)) == Concat([i \in 1..Len(seq) |-> F(seq[i])])

TheOne(opt) == CHOOSE x \in opt : TRUE

king_attackers(p, square, attacker, occ) == attacks_to(p.board, square, attacker, occ)

checkers(p) ==
    LET k == first(our(p, King))
    IN IF k = None THEN {}
       ELSE king_attackers(p, TheOne(k), Not(p.turn), occupied(p.board))

push_promotions(from, to, capture) ==
    <<Normal(Pawn, from, capture, to, Some(Queen)),
      Normal(Pawn, from, capture, to, Some(Rook)),
      Normal(Pawn, from, capture, to, Some(Bishop)),
      Normal(Pawn, from, capture, to, Some(Knight))>>

gen_pawn_moves(p, target) ==
    LET seventh == our(p, Pawn) \cap relative_rank(p.turn, 6)
        single_moves == relative_shift(p.turn, our(p, Pawn), 8) \ occupied(p.board)
        double_moves == (relative_shift(p.turn, single_moves, 8)
                            \cap relative_rank(p.turn, 3)) \ occupied(p.board)
        CapTargets(from) == Asc((pawn_attacks(p.turn, from) \cap them(p)) \cap target)
        captures == FlatMap(Asc(our(p, Pawn) \ seventh), LAMBDA from :
            FlatMap(CapTargets(from), LAMBDA to :
                <<Normal(Pawn, from, role_at(p.board, to), to, None)>>))
        promoCaptures == FlatMap(Asc(seventh), LAMBDA from :
            FlatMap(CapTargets(from), LAMBDA to :
                push_promotions(from, to, role_at(p.board, to))))
        singles == FlatMap(Asc((single_moves \cap target) \ BACKRANKS), LAMBDA to :
            FlatMap(Asc(offset(to, fold(p.turn, -8, 8))), LAMBDA from :
                <<Normal(Pawn, from, None, to, None)>>))
        promoSingles == FlatMap(Asc((single_moves \cap target) \cap BACKRANKS), LAMBDA to :
            FlatMap(Asc(offset(to, fold(p.turn, -8, 8))), LAMBDA from :
                push_promotions(from, to, None)))
        doubles == FlatMap(Asc(double_moves \cap target), LAMBDA to :
            FlatMap(Asc(offset(to, fold(p.turn, -16, 16))), LAMBDA from :
                <<Normal(Pawn, from, None, to, None)>>))
    IN captures \o promoCaptures \o singles \o promoSingles \o doubles

\* Stepper::gen_moves and Slider::gen_moves for one role.
PieceAttacks(role, from, occ) ==
    CASE role = Knight -> knight_attacks(from)
      [] role = Bishop -> bishop_attacks(from, occ)
      [] role = Rook -> rook_attacks(from, occ)
      [] role = Queen -> queen_attacks(from, occ)

gen_moves(p, role, target) ==
    FlatMap(Asc(our(p, role)), LAMBDA from :
        FlatMap(Asc(PieceAttacks(role, from, occupied(p.board)) \cap target), LAMBDA to :
            <<Normal(role, from, role_at(p.board, to), to, None)>>))

gen_non_king(p, target) ==
    gen_pawn_moves(p, target) \o gen_moves(p, Knight, target)
        \o gen_moves(p, Bishop, target) \o gen_moves(p, Rook, target)
        \o gen_moves(p, Queen, target)

gen_safe_king(p, king, target) ==
    FlatMap(Asc(king_attacks(king) \cap target), LAMBDA to :
        IF attacks_to(p.board, to, Not(p.turn), occupied(p.board)) = {}
        THEN <<Normal(King, king, role_at(p.board, to), to, None)>>
        ELSE <<>>)

\* evasions that tests the king's squares with the king still in the way.
evasions_ray_not_excluded(p, king, chk) ==
    LET single == single_square(chk)
    IN gen_safe_king(p, king, Squares \ us(p))
         \o (IF single = None THEN <<>>
             ELSE LET checker == TheOne(single)
                  IN gen_non_king(p, between(king, checker) \cup {checker}))

evasions(p, king, chk) ==
    LET sl == chk \cap sliders(p.board)
        attacked == UNION {ray(checker, king) \ {checker} : checker \in sl}
        single == single_square(chk)
    IN gen_safe_king(p, king, (Squares \ us(p)) \ attacked)
         \o (IF single = None THEN <<>>
             ELSE LET checker == TheOne(single)
                  IN gen_non_king(p, between(king, checker) \cup {checker}))

\* castling_uncovers_rank_attack that never finds an attack.
castling_uncovers_never(p, rook, kto) == FALSE

castling_uncovers_rank_attack(p, rook, kto) ==
    (((rook_attacks(kto, occupied(p.board) \ {rook}) \cap them(p))
        \cap rooks_and_queens(p.board)) \cap rank(Rank(kto))) # {}

gen_castling_moves(p, king, side) ==
    LET rk == castling_rook(p.castling, p.turn, side)
    IN IF rk = None THEN <<>>
       ELSE
         LET rook == TheOne(rk)
             path == castling_path(p.castling, p.turn, side)
             kto == king_to(side, p.turn)
             king_path == (between(king, kto) \cup {kto}) \cup {king}
             occ == occupied(p.board)
             occNoKing == (occ \ {king}) \cup ({king} \ occ)
         IN IF (path \cap occ) # {} THEN <<>>
            ELSE IF \E sq \in king_path :
                        king_attackers(p, sq, Not(p.turn), occNoKing) # {}
            THEN <<>>
            ELSE IF castling_uncovers_rank_attack(p, rook, kto) THEN <<>>
            ELSE <<Castle(king, rook)>>

\* Returns the pushed moves; `found` is that the list is not empty.
gen_en_passant(board, turn, ep) ==
    FlatMap(Asc(ep), LAMBDA to :
        FlatMap(Asc((pawns(board) \cap by_color(board, turn))
                        \cap pawn_attacks(Not(turn), to)), LAMBDA from :
            <<EnPassant(from, to)>>))

slider_blockers(board, enemy, king) ==
    LET snipers == (rook_attacks(king, {}) \cap rooks_and_queens(board))
                     \cup (bishop_attacks(king, {}) \cap bishops_and_queens(board))
    IN UNION {IF more_than_one(between(king, sniper) \cap occupied(board))
              THEN {}
              ELSE between(king, sniper) \cap occupied(board) :
                 sniper \in snipers \cap enemy}

is_safe(p, king, m, blockers) ==
    CASE m.kind = "Normal" ->
            m.from \notin (us(p) \cap blockers) \/ aligned(m.from, m.to, king)
      [] m.kind = "EnPassant" ->
            LET occ0 == occupied(p.board)
                occ1 == (occ0 \ {m.from}) \cup ({m.from} \ occ0)
                cap == combine(m.to, m.from)
                occ2 == (occ1 \ {cap}) \cup ({cap} \ occ1)
                occ3 == occ2 \cup {m.to}
            IN /\ ((rook_attacks(king, occ3) \cap them(p))
                      \cap rooks_and_queens(p.board)) = {}
               /\ ((bishop_attacks(king, occ3) \cap them(p))
                      \cap bishops_and_queens(p.board)) = {}
      [] OTHER -> TRUE

\* legal_moves with the quiet generators also run while in check.
legal_moves_no_else(p, moves) ==
    LET king == TheOne(king_of(p.board, p.turn))
        ep == gen_en_passant(p.board, p.turn, p.ep_square)
        has_ep == Len(ep) > 0
        chk == checkers(p)
        target == Squares \ us(p)
        generated ==
            (IF chk = {} THEN <<>> ELSE evasions(p, king, chk))
              \o gen_non_king(p, target) \o gen_safe_king(p, king, target)
              \o gen_castling_moves(p, king, KingSide)
              \o gen_castling_moves(p, king, QueenSide)
        all == (moves \o ep) \o generated
        blockers == slider_blockers(p.board, them(p), king)
    IN IF blockers # {} \/ has_ep
       THEN SelectSeq(all, LAMBDA m : is_safe(p, king, m, blockers))
       ELSE all

\* Chess::legal_moves: `moves` is the caller's buffer, the result its new content.
legal_moves(p, moves) ==
    LET king == TheOne(king_of(p.board, p.turn))
        ep == gen_en_passant(p.board, p.turn, p.ep_square)
        has_ep == Len(ep) > 0
        chk == checkers(p)
        target == Squares \ us(p)
        generated ==
            IF chk = {}
            THEN gen_non_king(p, target) \o gen_safe_king(p, king, target)
                   \o gen_castling_moves(p, king, KingSide)
                   \o gen_castling_moves(p, king, QueenSide)
            ELSE evasions(p, king, chk)
        all == (moves \o ep) \o generated
        blockers == slider_blockers(p.board, them(p), king)
    IN IF blockers # {} \/ has_ep
       THEN SelectSeq(all, LAMBDA m : is_safe(p, king, m, blockers))
       ELSE all

legals(p) == legal_moves(p, <<>>)

\* filter_san_candidates that keeps every move.
filter_san_candidates_keeps_all(role, to, moves) == moves

filter_san_candidates(role, to, moves) ==
    SelectSeq(moves, LAMBDA m :
        CASE m.kind \in {"Normal", "Put"} -> to = m.to /\ role = m.role
          [] m.kind = "EnPassant" -> role = Pawn /\ m.to = to
          [] OTHER -> FALSE)

\* san_candidates that filters for king safety only after an en passant capture.
san_candidates_pins_ignored(p, role, to, moves) ==
    LET king == TheOne(king_of(p.board, p.turn))
        chk == checkers(p)
        occ == occupied(p.board)
        piece_from ==
            CASE role \in {Pawn, King} -> {}
              [] role = Knight -> knight_attacks(to)
              [] role = Bishop -> bishop_attacks(to, occ)
              [] role = Rook -> rook_attacks(to, occ)
              [] role = Queen -> queen_attacks(to, occ)
        generated ==
            IF chk = {}
            THEN IF to \notin us(p)
                 THEN (moves
                        \o (CASE role = Pawn -> gen_pawn_moves(p, {to})
                              [] role = King -> gen_safe_king(p, king, {to})
                              [] OTHER -> <<>>))
                        \o FlatMap(Asc(piece_from \cap our(p, role)), LAMBDA from :
                              <<Normal(role, from, role_at(p.board, to), to, None)>>)
                 ELSE moves
            ELSE filter_san_candidates(role, to, moves \o evasions(p, king, chk))
        ep == IF role = Pawn /\ Some(to) = p.ep_square
              THEN gen_en_passant(p.board, p.turn, p.ep_square)
              ELSE <<>>
        has_ep == Len(ep) > 0
        all == generated \o ep
        blockers == slider_blockers(p.board, them(p), king)
    IN IF has_ep
       THEN SelectSeq(all, LAMBDA m : is_safe(p, king, m, blockers))
       ELSE all

\* Chess::san_candidates.
san_candidates(p, role, to, moves) ==
    LET king == TheOne(king_of(p.board, p.turn))
        chk == checkers(p)
        occ == occupied(p.board)
        piece_from ==
            CASE role \in {Pawn, King} -> {}
              [] role = Knight -> knight_attacks(to)
              [] role = Bishop -> bishop_attacks(to, occ)
              [] role = Rook -> rook_attacks(to, occ)
              [] role = Queen -> queen_attacks(to, occ)
        generated ==
            IF chk = {}
            THEN IF to \notin us(p)
                 THEN (moves
                        \o (CASE role = Pawn -> gen_pawn_moves(p, {to})
                              [] role = King -> gen_safe_king(p, king, {to})
                              [] OTHER -> <<>>))
                        \o FlatMap(Asc(piece_from \cap our(p, role)), LAMBDA from :
                              <<Normal(role, from, role_at(p.board, to), to, None)>>)
                 ELSE moves
            ELSE filter_san_candidates(role, to, moves \o evasions(p, king, chk))
        ep == IF role = Pawn /\ Some(to) = p.ep_square
              THEN gen_en_passant(p.board, p.turn, p.ep_square)
              ELSE <<>>
        has_ep == Len(ep) > 0
        all == generated \o ep
        blockers == slider_blockers(p.board, them(p), king)
    IN IF blockers # {} \/ has_ep
       THEN SelectSeq(all, LAMBDA m : is_safe(p, king, m, blockers))
       ELSE all

\* is_insufficient_material that does not look at the knights.
is_insufficient_material_knights_ignored(p) ==
    IF pawns(p.board) # {} \/ rooks_and_queens(p.board) # {} THEN FALSE
    ELSE IF Cardinality(occupied(p.board)) < 3 THEN TRUE
    ELSE IF bishops(p.board) \cap DARK_SQUARES = {} THEN TRUE
    ELSE IF bishops(p.board) \cap LIGHT_SQUARES = {} THEN TRUE
    ELSE FALSE

\* Chess::is_insufficient_material.
is_insufficient_material(p) ==
    IF pawns(p.board) # {} \/ rooks_and_queens(p.board) # {} THEN FALSE
    ELSE IF Cardinality(occupied(p.board)) < 3 THEN TRUE
    ELSE IF knights(p.board) # {} THEN FALSE
    ELSE IF bishops(p.board) \cap DARK_SQUARES = {} THEN TRUE
    ELSE IF bishops(p.board) \cap LIGHT_SQUARES = {} THEN TRUE
    ELSE FALSE

\* Chess::is_variant_end and Chess::variant_outcome.
is_variant_end(p) == FALSE
variant_outcome(p) == None

\* enum Outcome.
Decisive(winner) == [kind |-> "Decisive", winner |-> winner]
Draw == [kind |-> "Draw"]

\* Position::is_checkmate.
is_checkmate(p) ==
    IF checkers(p) = {} THEN FALSE
    ELSE Len(legal_moves(p, <<>>)) = 0

\* Position::is_stalemate.
is_stalemate(p) ==
    IF checkers(p) # {} \/ is_variant_end(p) THEN FALSE
    ELSE Len(legal_moves(p, <<>>)) = 0

\* Position::is_game_over.
is_game_over(p) ==
    Len(legal_moves(p, <<>>)) = 0 \/ is_insufficient_material(p)

\* Position::outcome.
outcome(p) ==
    IF variant_outcome(p) # None THEN variant_outcome(p)
    ELSE IF is_checkmate(p) THEN Some(Decisive(Not(p.turn)))
    ELSE IF is_stalemate(p) \/ is_insufficient_material(p) THEN Some(Draw)
    ELSE None

\* Chess::castling_moves.
castling_moves(p, side, moves) ==
    LET king == TheOne(king_of(p.board, p.turn))
    IN moves \o gen_castling_moves(p, king, side)

Contains(moves, m) == \E i \in 1..Len(moves) : moves[i] = m

\* Position::is_legal.
is_legal(p, m) ==
    LET moves ==
          CASE m.kind \in {"Normal", "Put"} -> san_candidates(p, m.role, m.to, <<>>)
            [] m.kind = "EnPassant" -> san_candidates(p, Pawn, m.to, <<>>)
            [] m.kind = "Castle" /\ File(m.king) < File(m.rook) ->
                   castling_moves(p, KingSide, <<>>)
            [] OTHER -> castling_moves(p, QueenSide, <<>>)
    IN Contains(moves, m)

\* is_relevant_ep that never hides the square.
is_relevant_ep_always(p, ep) == TRUE

\* is_relevant_ep.
is_relevant_ep(p, ep) ==
    /\ Len(gen_en_passant(p.board, p.turn, Some(ep))) > 0
    /\ \E m \in Range(legal_moves(p, <<>>)) : m.kind = "EnPassant" /\ m.to = ep

\* impl Setup for Chess: the accessors whose value is not the stored field.
castling_rights(p) == CastlingRights(p.castling)
ep_square(p) == {s \in p.ep_square : is_relevant_ep(p, s)}

\* A Chess position seen through the Setup trait.
SetupOf(p) ==
    [board |-> p.board, turn |-> p.turn, castling_rights |-> castling_rights(p),
     ep_square |-> ep_square(p), halfmove_clock |-> p.halfmove_clock,
     fullmoves |-> p.fullmoves]

\* SwapTurn<S>.
SwapTurn(setup) == [setup EXCEPT !.turn = Not(setup.turn)]

(***************************************************************************)
(* Move execution.                                                         *)
(***************************************************************************)
\* A u32 is kept as two 16-bit limbs <<high, low>>, so that 2^32 - 1 is a value.
LIMB == 65536
U32(n) == <<n \div LIMB, n % LIMB>>
U32_MAX == <<LIMB - 1, LIMB - 1>>

\* u32::saturating_add for an addend below 2^16.
saturating_add(x, n) ==
    IF x[2] + n < LIMB THEN <<x[1], x[2] + n>>
    ELSE IF x[1] + 1 < LIMB THEN <<x[1] + 1, (x[2] + n) - LIMB>>
    ELSE U32_MAX

do_move(p, m) ==
    LET color == p.turn
        clock1 == saturating_add(p.halfmove_clock, 1)
        afterMove ==
          CASE m.kind = "Normal" ->
                 LET clock == IF m.role = Pawn \/ m.capture # None THEN U32(0) ELSE clock1
                     ep == IF m.role = Pawn /\ (m.from - m.to = 16 \/ m.from - m.to = -16)
                           THEN offset(m.from, fold(color, 8, -8))
                           ELSE None
                     c1 == IF m.role = King THEN discard_side(p.castling, color)
                           ELSE IF m.role = Rook THEN discard_rook(p.castling, m.from)
                           ELSE p.castling
                     c2 == IF m.capture = Some(Rook) THEN discard_rook(c1, m.to) ELSE c1
                     promoted == m.from \in p.board.promoted \/ m.promotion # None
                     piece == IF m.promotion = None THEN PieceOf(color, m.role)
                              ELSE PieceOf(color, TheOne(m.promotion))
                 IN [board |-> set_piece_at(discard_piece_at(p.board, m.from),
                                            m.to, piece, promoted),
                     castling |-> c2, ep_square |-> ep, halfmove_clock |-> clock]
            [] m.kind = "Castle" ->
                 LET rto == combine(IF m.rook - m.king < 0 THEN D1 ELSE F1, m.rook)
                     kto == combine(IF m.rook - m.king < 0 THEN C1 ELSE G1, m.king)
                     b1 == discard_piece_at(discard_piece_at(p.board, m.king), m.rook)
                     b2 == set_piece_at(b1, rto, PieceOf(color, Rook), FALSE)
                     b3 == set_piece_at(b2, kto, PieceOf(color, King), FALSE)
                 IN [board |-> b3, castling |-> discard_side(p.castling, color),
                     ep_square |-> None, halfmove_clock |-> clock1]
            [] m.kind = "EnPassant" ->
                 LET b1 == discard_piece_at(p.board, combine(m.to, m.from))
                     moved == piece_at(b1, m.from)
                     b2 == IF moved = None THEN b1
                           ELSE set_piece_at(discard_piece_at(b1, m.from),
                                             m.to, TheOne(moved), FALSE)
                 IN [board |-> b2, castling |-> p.castling,
                     ep_square |-> None, halfmove_clock |-> U32(0)]
            [] m.kind = "Put" ->
                 [board |-> set_piece_at(p.board, m.to, PieceOf(color, m.role), FALSE),
                  castling |-> p.castling, ep_square |-> None,
                  halfmove_clock |-> clock1]
    IN [board |-> afterMove.board,
        turn |-> Not(color),
        castling |-> afterMove.castling,
        ep_square |-> afterMove.ep_square,
        halfmove_clock |-> afterMove.halfmove_clock,
        fullmoves |-> IF color = Black THEN saturating_add(p.fullmoves, 1)
                      ELSE p.fullmoves]

\* play_unchecked that leaves the side to move as it was.
play_unchecked_turn_kept(p, m) == [do_move(p, m) EXCEPT !.turn = p.turn]

\* play_unchecked whose halfmove clock wraps to 0 where do_move saturates.
play_unchecked_clock_wraps(p, m) ==
    LET q == do_move(p, m)
    IN IF p.halfmove_clock = U32_MAX /\ q.halfmove_clock = U32_MAX
       THEN [q EXCEPT !.halfmove_clock = U32(0)]
       ELSE q

\* play_unchecked that keeps the old en passant target when no new one is set.
play_unchecked_ep_kept(p, m) ==
    LET q == do_move(p, m)
    IN IF q.ep_square = None THEN [q EXCEPT !.ep_square = p.ep_square] ELSE q

\* play_unchecked that removes the castling king and rook after placing them.
play_unchecked_castle_origins_last(p, m) ==
    LET q == do_move(p, m)
    IN IF m.kind = "Castle"
       THEN [q EXCEPT !.board = discard_piece_at(discard_piece_at(q.board, m.king), m.rook)]
       ELSE q

play_unchecked(p, m) == do_move(p, m)

\* Position::play that plays any move given.
play_unguarded(p, m) == [tag |-> "Ok", val |-> play_unchecked(p, m)]

\* Position::play: the position is taken by value, so the caller holds
\* either the position returned in Ok or nothing but the error.
play(p, m) ==
    IF is_legal(p, m) THEN [tag |-> "Ok", val |-> play_unchecked(p, m)]
    ELSE [tag |-> "Err", val |-> "IllegalMove"]

(***************************************************************************)
(* Validation and construction.                                            *)
(***************************************************************************)
EMPTY_BOARD == "EMPTY_BOARD"
MISSING_KING == "MISSING_KING"
TOO_MANY_KINGS == "TOO_MANY_KINGS"
PAWNS_ON_BACKRANK == "PAWNS_ON_BACKRANK"
BAD_CASTLING_RIGHTS == "BAD_CASTLING_RIGHTS"
INVALID_EP_SQUARE == "INVALID_EP_SQUARE"
OPPOSITE_CHECK == "OPPOSITE_CHECK"

validate(p) ==
    LET occ == occupied(p.board)
        epErrors ==
          UNION {IF ep \notin relative_rank(p.turn, 5)
                 THEN {INVALID_EP_SQUARE}
                 ELSE LET fifth_rank_sq == TheOne(offset(ep, fold(p.turn, -8, 8)))
                          seventh_rank_sq == TheOne(offset(ep, fold(p.turn, 8, -8)))
                      IN (IF fifth_rank_sq \notin their(p, Pawn)
                          THEN {INVALID_EP_SQUARE} ELSE {})
                         \cup (IF ep \in occ \/ seventh_rank_sq \in occ
                               THEN {INVALID_EP_SQUARE} ELSE {}) :
                    ep \in ep_square(p)}
        their_king == king_of(p.board, Not(p.turn))
    IN (IF occ = {} THEN {EMPTY_BOARD} ELSE {})
       \cup (IF (pawns(p.board) \cap (rank(0) \cup rank(7))) # {}
             THEN {PAWNS_ON_BACKRANK} ELSE {})
       \cup epErrors
       \cup (IF \E color \in Colors : king_of(p.board, color) = None
             THEN {MISSING_KING} ELSE {})
       \cup (IF Cardinality(kings(p.board)) > 2 THEN {TOO_MANY_KINGS} ELSE {})
       \cup (IF their_king # None
                /\ king_attackers(p, TheOne(their_king), p.turn, occ) # {}
             THEN {OPPOSITE_CHECK} ELSE {})

\* Chess::from_setup: the position built, and the error mask (empty: Ok(pos)).
from_setup(setup) ==
    LET c == CastlingFromSetup(setup)
        p == [board |-> setup.board, turn |-> setup.turn, castling |-> c.castling,
              ep_square |-> setup.ep_square, halfmove_clock |-> setup.halfmove_clock,
              fullmoves |-> setup.fullmoves]
    IN [pos |-> p,
        errors |-> validate(p) \cup (IF c.ok THEN {} ELSE {BAD_CASTLING_RIGHTS})]

\* is_irreversible that does not look at the castling rights.
is_irreversible_rights_ignored(p, m) ==
    \/ m.kind \in {"Castle", "EnPassant", "Put"}
    \/ m.role = Pawn
    \/ m.capture # None

\* Position::is_irreversible.
is_irreversible(p, m) ==
    CASE m.kind = "Normal" /\ m.role = Pawn -> TRUE
      [] m.kind = "Normal" /\ m.capture # None -> TRUE
      [] m.kind \in {"Castle", "EnPassant", "Put"} -> TRUE
      [] OTHER ->
           \/ m.from \in castling_rights(p)
           \/ m.to \in castling_rights(p)
           \/ (m.role = King
                 /\ (castling_rights(p) \cap relative_rank(p.turn, 0)) # {})

\* swap_turn that does not validate the swapped setup.
swap_turn_unvalidated(p) ==
    [tag |-> "Ok", val |-> from_setup(SwapTurn(SetupOf(p))).pos]

\* Position::swap_turn: from_setup of the position seen through SwapTurn.
swap_turn(p) ==
    LET r == from_setup(SwapTurn(SetupOf(p)))
    IN IF r.errors = {} THEN [tag |-> "Ok", val |-> r.pos]
       ELSE [tag |-> "Err", val |-> r.errors]

\* Chess::default.
ChessDefault ==
    LET back == <<Rook, Knight, Bishop, Queen, King, Bishop, Knight, Rook>>
    IN [board |-> [pieces |-> [s \in Squares |->
                      CASE Rank(s) = 0 -> Some(PieceOf(White, back[File(s) + 1]))
                        [] Rank(s) = 1 -> Some(PieceOf(White, Pawn))
                        [] Rank(s) = 6 -> Some(PieceOf(Black, Pawn))
                        [] Rank(s) = 7 -> Some(PieceOf(Black, back[File(s) + 1]))
                        [] OTHER -> None],
                   promoted |-> {}],
        turn |-> White,
        castling |-> CastlingDefault,
        ep_square |-> None,
        halfmove_clock |-> U32(0),
        fullmoves |-> U32(1)]

(***************************************************************************)
(* The setups handed to from_setup.  Every scenario is a board (given as   *)
(* its FEN placement) with the sides to move, castling-right bitboards,    *)
(* en passant squares and clocks it is tried with.                         *)
(***************************************************************************)
W(role, f, r) == <<Sq(f, r), PieceOf(White, role)>>
B(role, f, r) == <<Sq(f, r), PieceOf(Black, role)>>

Place(placed) ==
    [pieces |-> [s \in Squares |-> {x[2] : x \in {y \in placed : y[1] = s}}],
     promoted |-> {}]

\* rnbqkbnr/pppppppp/8/8/8/8/PPPPPPPP/RNBQKBNR
ScStart ==
    [board |-> Place({B(Rook, 0, 7), B(Knight, 1, 7), B(Bishop, 2, 7), B(Queen, 3, 7),
                      B(King, 4, 7), B(Bishop, 5, 7), B(Knight, 6, 7), B(Rook, 7, 7),
                      B(Pawn, 0, 6), B(Pawn, 1, 6), B(Pawn, 2, 6), B(Pawn, 3, 6),
                      B(Pawn, 4, 6), B(Pawn, 5, 6), B(Pawn, 6, 6), B(Pawn, 7, 6),
                      W(Pawn, 0, 1), W(Pawn, 1, 1), W(Pawn, 2, 1), W(Pawn, 3, 1),
                      W(Pawn, 4, 1), W(Pawn, 5, 1), W(Pawn, 6, 1), W(Pawn, 7, 1),
                      W(Rook, 0, 0), W(Knight, 1, 0), W(Bishop, 2, 0), W(Queen, 3, 0),
                      W(King, 4, 0), W(Bishop, 5, 0), W(Knight, 6, 0), W(Rook, 7, 0)}),
     turns |-> {White},
     rights |-> {{0, 7, 56, 63}},
     eps |-> {None, Some(20), Some(44)},
     clocks |-> {<<U32(0), U32(1)>>}]

\* 4k3/8/8/3pP3/8/8/8/4K3
ScEnPassant ==
    [board |-> Place({B(King, 4, 7), B(Pawn, 3, 4), W(Pawn, 4, 4), W(King, 4, 0)}),
     turns |-> {White, Black},
     rights |-> {{}},
     eps |-> {None, Some(43), Some(44), Some(19)},
     clocks |-> {<<U32(0), U32(1)>>}]

\* 4k3/8/8/8/3Pp3/8/8/4K3
ScEnPassantBlack ==
    [board |-> Place({B(King, 4, 7), W(Pawn, 3, 3), B(Pawn, 4, 3), W(King, 4, 0)}),
     turns |-> {Black},
     rights |-> {{}},
     eps |-> {None, Some(19)},
     clocks |-> {<<U32(0), U32(1)>>}]

\* 4k3/8/8/4P3/8/8/8/4K3
ScEpNoPawn ==
    [board |-> Place({B(King, 4, 7), W(Pawn, 4, 4), W(King, 4, 0)}),
     turns |-> {White},
     rights |-> {{}},
     eps |-> {None, Some(43), Some(45)},
     clocks |-> {<<U32(0), U32(1)>>}]

\* 4k3/8/8/8/4P3/8/8/4K3
ScEpWrongRank ==
    [board |-> Place({B(King, 4, 7), W(Pawn, 4, 3), W(King, 4, 0)}),
     turns |-> {White},
     rights |-> {{}},
     eps |-> {None, Some(35)},
     clocks |-> {<<U32(0), U32(1)>>}]

\* 4k3/3n4/8/3pP3/8/8/8/4K3
ScEpBlocked ==
    [board |-> Place({B(King, 4, 7), B(Knight, 3, 6), B(Pawn, 3, 4), W(Pawn, 4, 4),
                      W(King, 4, 0)}),
     turns |-> {White},
     rights |-> {{}},
     eps |-> {None, Some(43)},
     clocks |-> {<<U32(0), U32(1)>>}]

\* 4k3/8/8/3pP3/8/5n2/8/4K3
ScEpKnightCheck ==
    [board |-> Place({B(King, 4, 7), B(Pawn, 3, 4), W(Pawn, 4, 4), B(Knight, 5, 2),
                      W(King, 4, 0)}),
     turns |-> {White, Black},
     rights |-> {{}},
     eps |-> {None, Some(43)},
     clocks |-> {<<U32(0), U32(1)>>}]

\* 8/8/8/K2pP2r/8/8/8/4k3
ScEpRankPin ==
    [board |-> Place({W(King, 0, 4), B(Pawn, 3, 4), W(Pawn, 4, 4), B(Rook, 7, 4),
                      B(King, 4, 0)}),
     turns |-> {White, Black},
     rights |-> {{}},
     eps |-> {None, Some(43)},
     clocks |-> {<<U32(0), U32(1)>>}]

\* 8/8/8/3pP3/4K3/8/8/4k3
ScEpPawnCheck ==
    [board |-> Place({B(Pawn, 3, 4), W(Pawn, 4, 4), W(King, 4, 3), B(King, 4, 0)}),
     turns |-> {White},
     rights |-> {{}},
     eps |-> {None, Some(43)},
     clocks |-> {<<U32(0), U32(1)>>}]

\* 3n4/4P3/8/8/8/8/8/4K2k
ScPromotion ==
    [board |-> Place({B(Knight, 3, 7), W(Pawn, 4, 6), W(King, 4, 0), B(King, 7, 0)}),
     turns |-> {White, Black},
     rights |-> {{}},
     eps |-> {None},
     clocks |-> {<<U32(0), U32(1)>>}]

\* 4k2K/8/8/8/8/8/4p3/3N4
ScPromotionBlack ==
    [board |-> Place({B(King, 4, 7), W(King, 7, 7), B(Pawn, 4, 1), W(Knight, 3, 0)}),
     turns |-> {Black},
     rights |-> {{}},
     eps |-> {None},
     clocks |-> {<<U32(0), U32(1)>>}]

\* r3k2r/8/8/8/8/8/8/R3K2R
ScCastle ==
    [board |-> Place({B(Rook, 0, 7), B(King, 4, 7), B(Rook, 7, 7), W(Rook, 0, 0),
                      W(King, 4, 0), W(Rook, 7, 0)}),
     turns |-> {White},
     rights |-> {{0, 7, 56, 63}, {7, 56}, {0, 7, 56, 63, 4}},
     eps |-> {None},
     clocks |-> {<<U32(0), U32(1)>>}]

\* 4k3/8/8/8/8/5r2/8/R3K2R
ScCastleAttacked ==
    [board |-> Place({B(King, 4, 7), B(Rook, 5, 2), W(Rook, 0, 0), W(King, 4, 0),
                      W(Rook, 7, 0)}),
     turns |-> {White, Black},
     rights |-> {{0, 7}},
     eps |-> {None},
     clocks |-> {<<U32(0), U32(1)>>}]

\* 4k3/8/8/8/8/8/8/rRK4R
ScCastleUncover ==
    [board |-> Place({B(King, 4, 7), B(Rook, 0, 0), W(Rook, 1, 0), W(King, 2, 0),
                      W(Rook, 7, 0)}),
     turns |-> {White, Black},
     rights |-> {{1, 7}},
     eps |-> {None},
     clocks |-> {<<U32(0), U32(1)>>}]

\* 4k3/8/8/8/8/8/8/1R4KR
ScCastle960 ==
    [board |-> Place({B(King, 4, 7), W(Rook, 1, 0), W(King, 6, 0), W(Rook, 7, 0)}),
     turns |-> {White},
     rights |-> {{1, 7}},
     eps |-> {None},
     clocks |-> {<<U32(0), U32(1)>>}]

\* Chess960: the king on d1 and the queen-side rook on c1 castle onto each
\* other's squares.  4k3/8/8/8/8/8/8/2RK4
ScCastleSwap ==
    [board |-> Place({B(King, 4, 7), W(Rook, 2, 0), W(King, 3, 0)}),
     turns |-> {White},
     rights |-> {{2}},
     eps |-> {None},
     clocks |-> {<<U32(0), U32(1)>>}]

\* r3kr2/8/8/8/8/8/8/4K3
ScCastle960Black ==
    [board |-> Place({B(Rook, 0, 7), B(King, 4, 7), B(Rook, 5, 7), W(King, 4, 0)}),
     turns |-> {Black},
     rights |-> {{56, 61}},
     eps |-> {None},
     clocks |-> {<<U32(0), U32(1)>>}]

\* r3k2r/6K1/8/8/8/8/8/8
ScKingTakesRook ==
    [board |-> Place({B(Rook, 0, 7), B(King, 4, 7), B(Rook, 7, 7), W(King, 6, 6)}),
     turns |-> {White, Black},
     rights |-> {{56, 63}},
     eps |-> {None},
     clocks |-> {<<U32(0), U32(1)>>}]

\* 4k3/8/8/1N3N2/8/1N6/8/4K3
ScThreeKnights ==
    [board |-> Place({B(King, 4, 7), W(Knight, 1, 4), W(Knight, 5, 4), W(Knight, 1, 2),
                      W(King, 4, 0)}),
     turns |-> {White},
     rights |-> {{}},
     eps |-> {None},
     clocks |-> {<<U32(0), U32(1)>>}]

\* 4k3/8/8/8/8/8/8/1N2KN2
ScKnightsFile ==
    [board |-> Place({B(King, 4, 7), W(Knight, 1, 0), W(King, 4, 0), W(Knight, 5, 0)}),
     turns |-> {White},
     rights |-> {{}},
     eps |-> {None},
     clocks |-> {<<U32(0), U32(1)>>}]

\* 4k3/8/8/6N1/8/8/8/4K1N1
ScKnightsRank ==
    [board |-> Place({B(King, 4, 7), W(Knight, 6, 4), W(King, 4, 0), W(Knight, 6, 0)}),
     turns |-> {White},
     rights |-> {{}},
     eps |-> {None},
     clocks |-> {<<U32(0), U32(1)>>}]

\* 4k3/8/8/8/7b/8/5N2/r3K3
ScPinCheck ==
    [board |-> Place({B(King, 4, 7), B(Bishop, 7, 3), W(Knight, 5, 1), B(Rook, 0, 0),
                      W(King, 4, 0)}),
     turns |-> {White, Black},
     rights |-> {{}},
     eps |-> {None},
     clocks |-> {<<U32(0), U32(1)>>}]

\* 4k3/4r3/8/8/8/8/4R3/4K3
ScPinFile ==
    [board |-> Place({B(King, 4, 7), B(Rook, 4, 6), W(Rook, 4, 1), W(King, 4, 0)}),
     turns |-> {White, Black},
     rights |-> {{}},
     eps |-> {None},
     clocks |-> {<<U32(0), U32(1)>>}]

\* 4k3/8/8/8/8/3n4/8/r3K3
ScDoubleCheck ==
    [board |-> Place({B(King, 4, 7), B(Knight, 3, 2), B(Rook, 0, 0), W(King, 4, 0)}),
     turns |-> {White},
     rights |-> {{}},
     eps |-> {None},
     clocks |-> {<<U32(0), U32(1)>>}]

\* 7k/5Q2/6K1/8/8/8/8/8
ScStalemate ==
    [board |-> Place({B(King, 7, 7), W(Queen, 5, 6), W(King, 6, 5)}),
     turns |-> {White, Black},
     rights |-> {{}},
     eps |-> {None},
     clocks |-> {<<U32(0), U32(1)>>}]

\* 7k/6Q1/6K1/8/8/8/8/8
ScCheckmate ==
    [board |-> Place({B(King, 7, 7), W(Queen, 6, 6), W(King, 6, 5)}),
     turns |-> {White, Black},
     rights |-> {{}},
     eps |-> {None},
     clocks |-> {<<U32(0), U32(1)>>}]

\* 8/8/8/8/8/8/8/K6k
ScBareKings ==
    [board |-> Place({W(King, 0, 0), B(King, 7, 0)}),
     turns |-> {White, Black},
     rights |-> {{}},
     eps |-> {None},
     clocks |-> {<<U32(0), U32(1)>>, <<<<LIMB - 1, LIMB - 2>>, <<LIMB - 1, LIMB - 2>>>>, <<U32_MAX, U32_MAX>>}]

\* 8/8/8/8/1b6/8/4k3/6KB
ScBishops ==
    [board |-> Place({B(Bishop, 1, 3), B(King, 4, 1), W(King, 6, 0), W(Bishop, 7, 0)}),
     turns |-> {White, Black},
     rights |-> {{}},
     eps |-> {None},
     clocks |-> {<<U32(0), U32(1)>>}]

\* 4k3/8/8/3p4/2P1P3/8/8/4K3
ScPawnCaptures ==
    [board |-> Place({B(King, 4, 7), B(Pawn, 3, 4), W(Pawn, 2, 3), W(Pawn, 4, 3),
                      W(King, 4, 0)}),
     turns |-> {White, Black},
     rights |-> {{}},
     eps |-> {None},
     clocks |-> {<<U32(0), U32(1)>>}]

\* R2r2k1/6pp/1Np2p2/1p2pP2/4p3/4K3/3r2PP/8
ScPinnedCandidate ==
    [board |-> Place({W(Rook, 0, 7), B(Rook, 3, 7), B(King, 6, 7), B(Pawn, 6, 6),
                      B(Pawn, 7, 6), W(Knight, 1, 5), B(Pawn, 2, 5), B(Pawn, 5, 5),
                      B(Pawn, 1, 4), B(Pawn, 4, 4), W(Pawn, 5, 4), B(Pawn, 4, 3),
                      W(King, 4, 2), B(Rook, 3, 1), W(Pawn, 6, 1), W(Pawn, 7, 1)}),
     turns |-> {Black},
     rights |-> {{}},
     eps |-> {None},
     clocks |-> {<<U32(5), U32(37)>>}]

\* R6R/3Q4/1Q4Q1/4Q3/2Q4Q/Q4Q2/pp1Q4/kBNN1KB1
ScMostLegals ==
    [board |-> Place({W(Rook, 0, 7), W(Rook, 7, 7), W(Queen, 3, 6), W(Queen, 1, 5),
                      W(Queen, 6, 5), W(Queen, 4, 4), W(Queen, 2, 3), W(Queen, 7, 3),
                      W(Queen, 0, 2), W(Queen, 5, 2), B(Pawn, 0, 1), B(Pawn, 1, 1),
                      W(Queen, 3, 1), B(King, 0, 0), W(Bishop, 1, 0), W(Knight, 2, 0),
                      W(Knight, 3, 0), W(King, 5, 0), W(Bishop, 6, 0)}),
     turns |-> {White},
     rights |-> {{}},
     eps |-> {None},
     clocks |-> {<<U32(0), U32(1)>>}]

\* 4k3/8/8/8/8/8/8/1KRN4
ScCastleJump ==
    [board |-> Place({B(King, 4, 7), W(King, 1, 0), W(Rook, 2, 0), W(Knight, 3, 0)}),
     turns |-> {White},
     rights |-> {{2}},
     eps |-> {None},
     clocks |-> {<<U32(0), U32(1)>>}]

\* 4k3/8/8/3pP3/8/8/5nPP/6RK
ScEpOnlyMove ==
    [board |-> Place({B(King, 4, 7), B(Pawn, 3, 4), W(Pawn, 4, 4), B(Knight, 5, 1),
                      W(Pawn, 6, 1), W(Pawn, 7, 1), W(Rook, 6, 0), W(King, 7, 0)}),
     turns |-> {White},
     rights |-> {{}},
     eps |-> {None, Some(43)},
     clocks |-> {<<U32(0), U32(1)>>}]

\* 8/8/8/8/1b6/8/4k3/6BK
ScBishopsSameColour ==
    [board |-> Place({B(Bishop, 1, 3), B(King, 4, 1), W(Bishop, 6, 0), W(King, 7, 0)}),
     turns |-> {White, Black},
     rights |-> {{}},
     eps |-> {None},
     clocks |-> {<<U32(0), U32(1)>>}]

\* 4k3/4p3/8/3pP3/8/8/8/4K3
ScEpSwap ==
    [board |-> Place({B(King, 4, 7), B(Pawn, 4, 6), B(Pawn, 3, 4), W(Pawn, 4, 4),
                      W(King, 4, 0)}),
     turns |-> {White},
     rights |-> {{}},
     eps |-> {None, Some(43)},
     clocks |-> {<<U32(0), U32(1)>>}]

Scenarios ==
    {ScStart, ScEnPassant, ScEnPassantBlack, ScEpNoPawn, ScEpWrongRank, ScEpBlocked,
     ScEpKnightCheck, ScEpRankPin, ScEpPawnCheck, ScPromotion, ScPromotionBlack,
     ScCastle, ScCastleAttacked, ScCastleUncover, ScCastle960, ScCastle960Black,
     ScKingTakesRook, ScThreeKnights, ScKnightsFile, ScKnightsRank, ScPinCheck,
     ScPinFile, ScDoubleCheck, ScStalemate, ScCheckmate, ScBareKings, ScBishops,
     ScPawnCaptures, ScPinnedCandidate, ScMostLegals, ScCastleJump, ScEpOnlyMove,
     ScBishopsSameColour, ScEpSwap, ScCastleSwap}

Setups ==
    UNION {{[board |-> sc.board, turn |-> t, castling_rights |-> cr, ep_square |-> e,
             halfmove_clock |-> c[1], fullmoves |-> c[2]] :
               t \in sc.turns, cr \in sc.rights, e \in sc.eps, c \in sc.clocks} :
              sc \in Scenarios}


(***************************************************************************)
(* The state machine.  `pos` is the position held by the caller, `errors`  *)
(* the mask from_setup returned for it (empty: Ok), `prev` the position an *)
(* operation was applied to (None after construction), `last` the          *)
(* operation, and `ply` the number of moves played.                        *)
(***************************************************************************)
MaxPly == 1

Init ==
    \E setup \in Setups :
        LET r == from_setup(setup)
        IN /\ pos = r.pos
           /\ errors = r.errors
           /\ prev = None
           /\ last = [op |-> "from_setup", setup |-> setup]
           /\ ply = 0

\* legal_moves panics ("king in standard chess") without a king of the side to move.
HasKing(p) == king_of(p.board, p.turn) # None

PlayUnchecked(m) ==
    /\ errors = {}
    /\ ply < MaxPly
    /\ pos' = play_unchecked(pos, m)
    /\ prev' = Some(pos)
    /\ last' = [op |-> "play_unchecked", m |-> m]
    /\ ply' = ply + 1
    /\ UNCHANGED errors

Next ==
    /\ errors = {}
    /\ HasKing(pos)
    /\ \E m \in Range(legals(pos)) : PlayUnchecked(m)

Spec == Init /\ [][Next]_vars

(***************************************************************************)
(* Text.  A string is the sequence of its bytes, so that the parsers'      *)
(* range tests on bytes mean what they mean in the code.                   *)
(***************************************************************************)
AsciiOf ==
    [c \in {"#", "+", "-", "0", "=", "@", "O", "x"} |->
        CASE c = "#" -> 35 [] c = "+" -> 43 [] c = "-" -> 45 [] c = "0" -> 48
          [] c = "=" -> 61 [] c = "@" -> 64 [] c = "O" -> 79 [] c = "x" -> 120]
      @@ [c \in {"a", "b", "h", "k", "n", "p", "q", "r"} |->
        CASE c = "a" -> 97 [] c = "b" -> 98 [] c = "h" -> 104 [] c = "k" -> 107
          [] c = "n" -> 110 [] c = "p" -> 112 [] c = "q" -> 113 [] c = "r" -> 114]
      @@ [c \in {"1", "8"} |-> IF c = "1" THEN 49 ELSE 56]

Byte(c) == AsciiOf[c]
Bytes(chars) == [i \in 1..Len(chars) |-> Byte(chars[i])]

Ok(v) == [tag |-> "Ok", val |-> v]
Err(e) == [tag |-> "Err", val |-> e]
\* The result r is Ok(v).
IsOk(r, v) == r.tag = "Ok" /\ r.val = v

\* Role::char: the lower-case letter of a role.
role_char(role) ==
    CASE role = Pawn -> Byte("p") [] role = Knight -> Byte("n") [] role = Bishop -> Byte("b")
      [] role = Rook -> Byte("r") [] role = Queen -> Byte("q") [] role = King -> Byte("k")

\* 32 ^ b on a byte: flips the case of an ASCII letter.
Xor32(b) == IF (b \div 32) % 2 = 1 THEN b - 32 ELSE b + 32

\* Role::from_char: accepts the letter in either case.
role_from_char(ch) ==
    {r \in Roles : ch = role_char(r) \/ ch = Xor32(role_char(r))}

rank_from_char(ch) == IF Byte("1") <= ch /\ ch <= Byte("8") THEN Some(ch - Byte("1")) ELSE None
file_from_char(ch) == IF Byte("a") <= ch /\ ch <= Byte("h") THEN Some(ch - Byte("a")) ELSE None

\* Display for Square and Square::from_bytes.
SquareToString(sq) == <<Byte("a") + File(sq), Byte("1") + Rank(sq)>>
SquareFromBytes(s) ==
    IF Len(s) = 2 /\ file_from_char(s[1]) # None /\ rank_from_char(s[2]) # None
    THEN Some(Sq(TheOne(file_from_char(s[1])), TheOne(rank_from_char(s[2]))))
    ELSE None

(***************************************************************************)
(* SAN (san.rs).                                                           *)
(***************************************************************************)
SanNormal(role, from_file, from_rank, capture, to, promotion) ==
    [kind |-> "Normal", role |-> role, file |-> from_file, rank |-> from_rank,
     capture |-> capture, to |-> to, promotion |-> promotion]
SanCastle(side) == [kind |-> "Castle", side |-> side]
SanPut(role, to) == [kind |-> "Put", role |-> role, to |-> to]
SanNull == [kind |-> "Null"]

InvalidSan == Err("InvalidSan")

\* chars.next() when the iterator stands before the i-th byte.
NextAt(s, i) == IF i <= Len(s) THEN Some(s[i]) ELSE None

\* San::from_bytes, the branch for a piece or pawn move.  `i` is the index
\* of the byte the iterator yields next.
SanParseMove(s) ==
    LET first_ch == NextAt(s, 1)
        isPawn == first_ch # None /\ TheOne(first_ch) >= Byte("a")
        role == IF first_ch = None THEN None
                ELSE IF isPawn THEN Some(Pawn)
                ELSE role_from_char(TheOne(first_ch))
        next1 == IF isPawn THEN first_ch ELSE NextAt(s, 2)
        i1 == IF isPawn THEN 2 ELSE 3
        hasFile == next1 # None /\ Byte("a") <= TheOne(next1) /\ TheOne(next1) <= Byte("h")
        from_file == IF hasFile THEN Some(TheOne(next1) - Byte("a")) ELSE None
        next2 == IF hasFile THEN NextAt(s, i1) ELSE next1
        i2 == IF hasFile THEN i1 + 1 ELSE i1
        hasRank == next2 # None /\ Byte("1") <= TheOne(next2) /\ TheOne(next2) <= Byte("8")
        from_rank == IF hasRank THEN Some(TheOne(next2) - Byte("1")) ELSE None
        next3 == IF hasRank THEN NextAt(s, i2) ELSE next2
        i3 == IF hasRank THEN i2 + 1 ELSE i2
        toFileCh == IF next3 = Some(Byte("x")) THEN NextAt(s, i3) ELSE next3
        toRankCh == IF next3 = Some(Byte("x")) THEN NextAt(s, i3 + 1) ELSE NextAt(s, i3)
        to_file == UNION {file_from_char(ch) : ch \in toFileCh}
        to_rank == UNION {rank_from_char(ch) : ch \in toRankCh}
        explicitTo == next3 # None /\ next3 # Some(Byte("="))
        i4 == IF next3 = Some(Byte("x")) THEN i3 + 2 ELSE i3 + 1
        next4 == IF explicitTo THEN NextAt(s, i4) ELSE next3
        i5 == IF explicitTo THEN i4 + 1 ELSE i3
        promotion == IF next4 = Some(Byte("="))
                     THEN UNION {role_from_char(ch) : ch \in NextAt(s, i5)}
                     ELSE None
    IN IF role = None \/ next1 = None THEN InvalidSan
       ELSE IF hasFile /\ next2 = None THEN InvalidSan
       ELSE IF explicitTo /\ (to_file = None \/ to_rank = None) THEN InvalidSan
       ELSE IF ~explicitTo /\ (from_file = None \/ from_rank = None) THEN InvalidSan
       ELSE IF next4 # None /\ next4 # Some(Byte("=")) THEN InvalidSan
       ELSE IF next4 = Some(Byte("=")) /\ promotion = None THEN InvalidSan
       ELSE Ok(SanNormal(TheOne(role),
                         IF explicitTo THEN from_file ELSE None,
                         IF explicitTo THEN from_rank ELSE None,
                         next3 = Some(Byte("x")),
                         IF explicitTo THEN Sq(TheOne(to_file), TheOne(to_rank))
                         ELSE Sq(TheOne(from_file), TheOne(from_rank)),
                         promotion))

\* San::from_bytes.
SanFromBytes(bytes) ==
    LET san == IF Len(bytes) > 0 /\ bytes[Len(bytes)] \in {Byte("#"), Byte("+")}
               THEN SubSeq(bytes, 1, Len(bytes) - 1)
               ELSE bytes
    IN IF san = Bytes(<<"-", "-">>) THEN Ok(SanNull)
       ELSE IF san = Bytes(<<"O", "-", "O">>) THEN Ok(SanCastle(KingSide))
       ELSE IF san = Bytes(<<"O", "-", "O", "-", "O">>) THEN Ok(SanCastle(QueenSide))
       ELSE IF Len(san) = 3 /\ san[1] = Byte("@")
            THEN IF SquareFromBytes(SubSeq(san, 2, 3)) = None THEN InvalidSan
                 ELSE Ok(SanPut(Pawn, TheOne(SquareFromBytes(SubSeq(san, 2, 3)))))
       ELSE IF Len(san) = 4 /\ san[2] = Byte("@")
            THEN IF role_from_char(san[1]) = None
                    \/ SquareFromBytes(SubSeq(san, 3, 4)) = None
                 THEN InvalidSan
                 ELSE Ok(SanPut(TheOne(role_from_char(san[1])),
                                TheOne(SquareFromBytes(SubSeq(san, 3, 4)))))
       ELSE SanParseMove(san)

\* Display for San.
SanToString(s) ==
    CASE s.kind = "Normal" ->
           (IF s.role # Pawn THEN <<Xor32(role_char(s.role))>> ELSE <<>>)
             \o (IF s.file # None THEN <<Byte("a") + TheOne(s.file)>> ELSE <<>>)
             \o (IF s.rank # None THEN <<Byte("1") + TheOne(s.rank)>> ELSE <<>>)
             \o (IF s.capture THEN <<Byte("x")>> ELSE <<>>)
             \o SquareToString(s.to)
             \o (IF s.promotion # None
                 THEN <<Byte("="), Xor32(role_char(TheOne(s.promotion)))>> ELSE <<>>)
      [] s.kind = "Castle" ->
           IF s.side = KingSide THEN Bytes(<<"O", "-", "O">>)
           ELSE Bytes(<<"O", "-", "O", "-", "O">>)
      [] s.kind = "Put" ->
           (IF s.role = Pawn THEN <<>> ELSE <<Xor32(role_char(s.role))>>)
             \o <<Byte("@")>> \o SquareToString(s.to)
      [] s.kind = "Null" -> Bytes(<<"-", "-">>)

\* SanPlus::from_bytes.
SanPlusFromBytes(bytes) ==
    LET result == SanFromBytes(bytes)
        ends_with(ch) == Len(bytes) > 0 /\ bytes[Len(bytes)] = Byte(ch)
    IN IF result.tag = "Err" THEN result
       ELSE Ok([san |-> result.val, checkmate |-> ends_with("#"),
                check |-> ends_with("+")])

\* Display for SanPlus.
SanPlusToString(sp) ==
    IF sp.checkmate THEN SanToString(sp.san) \o <<Byte("#")>>
    ELSE IF sp.check THEN SanToString(sp.san) \o <<Byte("+")>>
    ELSE SanToString(sp.san)

\* San::to_move.
SanToMove(s, p) ==
    LET legalsFor ==
          CASE s.kind = "Normal" ->
                 SelectSeq(san_candidates(p, s.role, s.to, <<>>), LAMBDA m :
                     CASE m.kind = "Normal" ->
                            /\ (s.file = None \/ TheOne(s.file) = File(m.from))
                            /\ (s.rank = None \/ TheOne(s.rank) = Rank(m.from))
                            /\ s.capture = (m.capture # None)
                            /\ s.promotion = m.promotion
                       [] m.kind = "EnPassant" ->
                            /\ (s.file = None \/ TheOne(s.file) = File(m.from))
                            /\ (s.rank = None \/ TheOne(s.rank) = Rank(m.from))
                            /\ s.capture
                            /\ s.promotion = None
                       [] OTHER -> FALSE)
            [] s.kind = "Castle" -> castling_moves(p, s.side, <<>>)
            [] s.kind = "Put" ->
                 SelectSeq(san_candidates(p, s.role, s.to, <<>>),
                           LAMBDA m : m.kind = "Put")
            [] OTHER -> <<>>
    IN IF s.kind = "Null" THEN Err("IllegalSan")
       ELSE IF Len(legalsFor) = 0 THEN Err("IllegalSan")
       ELSE IF Len(legalsFor) = 1 THEN Ok(legalsFor[1])
       ELSE Err("AmbiguousSan")

\* san that never asks for the origin file.
san_file_never_needed(p, m) ==
    CASE m.kind = "Normal" /\ m.role = Pawn ->
           SanNormal(Pawn, IF m.capture # None THEN Some(File(m.from)) ELSE None,
                     None, m.capture # None, m.to, m.promotion)
      [] m.kind = "Normal" /\ m.role # Pawn ->
           LET others == {c \in Range(san_candidates(p, m.role, m.to, <<>>)) :
                             c.kind = "Normal" /\ c.from # m.from}
               from_file == FALSE
               from_rank == \E c \in others : /\ Rank(m.from) # Rank(c.from)
                                         /\ File(m.from) = File(c.from)
           IN SanNormal(m.role,
                        IF from_file THEN Some(File(m.from)) ELSE None,
                        IF from_rank THEN Some(Rank(m.from)) ELSE None,
                        m.capture # None, m.to, m.promotion)
      [] m.kind = "EnPassant" ->
           SanNormal(Pawn, Some(File(m.from)), None, TRUE, m.to, None)
      [] m.kind = "Castle" ->
           IF File(m.rook) < File(m.king) THEN SanCastle(QueenSide)
           ELSE SanCastle(KingSide)
      [] m.kind = "Put" -> SanPut(m.role, m.to)

\* san: the fold over the candidates only ever raises its two flags, so each
\* flag is raised exactly when some candidate raises it.
san(p, m) ==
    CASE m.kind = "Normal" /\ m.role = Pawn ->
           SanNormal(Pawn, IF m.capture # None THEN Some(File(m.from)) ELSE None,
                     None, m.capture # None, m.to, m.promotion)
      [] m.kind = "Normal" /\ m.role # Pawn ->
           LET others == {c \in Range(san_candidates(p, m.role, m.to, <<>>)) :
                             c.kind = "Normal" /\ c.from # m.from}
               from_file == \E c \in others : \/ Rank(m.from) = Rank(c.from)
                                         \/ File(m.from) # File(c.from)
               from_rank == \E c \in others : /\ Rank(m.from) # Rank(c.from)
                                         /\ File(m.from) = File(c.from)
           IN SanNormal(m.role,
                        IF from_file THEN Some(File(m.from)) ELSE None,
                        IF from_rank THEN Some(Rank(m.from)) ELSE None,
                        m.capture # None, m.to, m.promotion)
      [] m.kind = "EnPassant" ->
           SanNormal(Pawn, Some(File(m.from)), None, TRUE, m.to, None)
      [] m.kind = "Castle" ->
           IF File(m.rook) < File(m.king) THEN SanCastle(QueenSide)
           ELSE SanCastle(KingSide)
      [] m.kind = "Put" -> SanPut(m.role, m.to)

(***************************************************************************)
(* UCI (uci.rs).                                                           *)
(***************************************************************************)
UciNormal(from, to, promotion) ==
    [kind |-> "Normal", from |-> from, to |-> to, promotion |-> promotion]
UciPut(role, to) == [kind |-> "Put", role |-> role, to |-> to]
UciNull == [kind |-> "Null"]

InvalidUci == Err("InvalidUci")
IllegalMove == Err("IllegalMove")

\* impl From<&Move> for Uci.
UciFrom(m) ==
    CASE m.kind = "Normal" -> UciNormal(m.from, m.to, m.promotion)
      [] m.kind = "EnPassant" -> UciNormal(m.from, m.to, None)
      [] m.kind = "Castle" -> UciNormal(m.king, m.rook, None)
      [] m.kind = "Put" -> UciPut(m.role, m.to)

\* Display for Uci.
UciToString(u) ==
    CASE u.kind = "Normal" ->
           SquareToString(u.from) \o SquareToString(u.to)
             \o (IF u.promotion = None THEN <<>>
                 ELSE <<role_char(TheOne(u.promotion))>>)
      [] u.kind = "Put" ->
           <<Xor32(role_char(u.role)), Byte("@")>> \o SquareToString(u.to)
      [] u.kind = "Null" -> Bytes(<<"0", "0", "0", "0">>)

\* Uci::from_bytes.
UciFromBytes(uci) ==
    IF Len(uci) # 4 /\ Len(uci) # 5 THEN InvalidUci
    ELSE IF uci = Bytes(<<"0", "0", "0", "0">>) THEN Ok(UciNull)
    ELSE LET to == SquareFromBytes(SubSeq(uci, 3, 4))
             from == SquareFromBytes(SubSeq(uci, 1, 2))
         IN IF to = None THEN InvalidUci
            ELSE IF uci[2] = Byte("@")
                 THEN IF role_from_char(uci[1]) = None THEN InvalidUci
                      ELSE Ok(UciPut(TheOne(role_from_char(uci[1])), TheOne(to)))
            ELSE IF from = None THEN InvalidUci
            ELSE IF Len(uci) = 5
                 THEN IF role_from_char(uci[5]) = None THEN InvalidUci
                      ELSE Ok(UciNormal(TheOne(from), TheOne(to), role_from_char(uci[5])))
            ELSE Ok(UciNormal(TheOne(from), TheOne(to), None))

\* Uci::to_move without the branch that infers the corner rook.
UciToMove_corner_never_inferred(u, p) ==
    IF u.kind = "Null" THEN IllegalMove
    ELSE IF u.kind = "Normal" /\ role_at(p.board, u.from) = None THEN IllegalMove
    ELSE IF u.kind = "Normal" /\ u.promotion # None /\ role_at(p.board, u.from) # Some(Pawn)
         THEN IllegalMove
    ELSE LET candidate ==
               IF u.kind = "Put" THEN Put(u.role, u.to)
               ELSE LET role == TheOne(role_at(p.board, u.from))
                    IN IF role = King /\ u.to \in castling_rights(p)
                       THEN Castle(u.from, u.to)
                       ELSE Normal(role, u.from, role_at(p.board, u.to), u.to, u.promotion)
         IN IF is_legal(p, candidate) THEN Ok(candidate) ELSE IllegalMove

\* Uci::to_move.
UciToMove(u, p) ==
    IF u.kind = "Null" THEN IllegalMove
    ELSE IF u.kind = "Normal" /\ role_at(p.board, u.from) = None THEN IllegalMove
    ELSE IF u.kind = "Normal" /\ u.promotion # None /\ role_at(p.board, u.from) # Some(Pawn)
         THEN IllegalMove
    ELSE LET candidate ==
               IF u.kind = "Put" THEN Put(u.role, u.to)
               ELSE LET role == TheOne(role_at(p.board, u.from))
                    IN IF role = King /\ u.to \in castling_rights(p)
                       THEN Castle(u.from, u.to)
                       ELSE IF /\ role = King
                               /\ u.from = fold(p.turn, E1, E8)
                               /\ Rank(u.to) = fold(p.turn, 0, 7)
                               /\ distance(u.from, u.to) = 2
                            THEN IF File(u.from) < File(u.to)
                                 THEN Castle(u.from, fold(p.turn, H1, H8))
                                 ELSE Castle(u.from, fold(p.turn, A1, A8))
                       ELSE Normal(role, u.from, role_at(p.board, u.to), u.to, u.promotion)
         IN IF is_legal(p, candidate) THEN Ok(candidate) ELSE IllegalMove

(***************************************************************************)
(* The rules of chess, stated square by square and without the generator's *)
(* bitboard machinery: what the claims about legality are measured         *)
(* against.                                                                *)
(***************************************************************************)
RefPathClear(pieces, s, t) ==
    LET n == distance(s, t)
        d == DirOf(s, t)
    IN \A k \in 1..(n - 1) : pieces[Sq(File(s) + k * d[1], Rank(s) + k * d[2])] = None

\* The piece standing on s attacks the square t.
RefAttacks(pieces, s, t) ==
    \E pc \in pieces[s] :
        LET df == File(t) - File(s)
            dr == Rank(t) - Rank(s)
            straight == (df = 0) # (dr = 0)
            diagonal == Abs(df) = Abs(dr) /\ df # 0
        IN CASE pc.role = Pawn -> dr = fold(pc.color, 1, -1) /\ Abs(df) = 1
             [] pc.role = Knight -> {Abs(df), Abs(dr)} = {1, 2}
             [] pc.role = King -> s # t /\ Abs(df) <= 1 /\ Abs(dr) <= 1
             [] pc.role = Rook -> straight /\ RefPathClear(pieces, s, t)
             [] pc.role = Bishop -> diagonal /\ RefPathClear(pieces, s, t)
             [] pc.role = Queen -> (straight \/ diagonal) /\ RefPathClear(pieces, s, t)

RefAttacked(pieces, t, by) ==
    \E s \in Squares : (\E pc \in pieces[s] : pc.color = by) /\ RefAttacks(pieces, s, t)

\* Some king of `color` is attacked by a piece of the other colour.
RefInCheck(pieces, color) ==
    \E k \in Squares : /\ pieces[k] = Some(PieceOf(color, King))
                       /\ RefAttacked(pieces, k, Not(color))

RefCastleKingTo(m) == Sq(IF File(m.rook) > File(m.king) THEN 6 ELSE 2, Rank(m.king))
RefCastleRookTo(m) == Sq(IF File(m.rook) > File(m.king) THEN 5 ELSE 3, Rank(m.king))

\* The piece placement after the move m of the side `color`.
RefAfter(pieces, color, m) ==
    CASE m.kind = "Normal" ->
           [s \in Squares |->
               IF s = m.from THEN None
               ELSE IF s = m.to
                    THEN Some(PieceOf(color, IF m.promotion = None THEN m.role
                                             ELSE TheOne(m.promotion)))
                    ELSE pieces[s]]
      [] m.kind = "EnPassant" ->
           [s \in Squares |->
               IF s = m.from \/ s = Sq(File(m.to), Rank(m.from)) THEN None
               ELSE IF s = m.to THEN Some(PieceOf(color, Pawn))
               ELSE pieces[s]]
      [] m.kind = "Castle" ->
           [s \in Squares |->
               IF s = RefCastleKingTo(m) THEN Some(PieceOf(color, King))
               ELSE IF s = RefCastleRookTo(m) THEN Some(PieceOf(color, Rook))
               ELSE IF s = m.king \/ s = m.rook THEN None
               ELSE pieces[s]]

Span(a, b) == {s \in Squares : /\ Rank(s) = Rank(a)
                               /\ Min2(File(a), File(b)) <= File(s)
                               /\ File(s) <= Max2(File(a), File(b))}

\* The moves that obey how the pieces move, the mover's king safety apart.
RefPseudoLegal(p) ==
    LET pieces == p.board.pieces
        mine(s) == \E pc \in pieces[s] : pc.color = p.turn
        theirs(s) == \E pc \in pieces[s] : pc.color # p.turn
        captureAt(t) == {pc.role : pc \in pieces[t]}
        fwd == fold(p.turn, 1, -1)
        lastRank == fold(p.turn, 7, 0)
        startRank == fold(p.turn, 1, 6)
        promos(t) == IF Rank(t) = lastRank
                     THEN {Some(Queen), Some(Rook), Some(Bishop), Some(Knight)}
                     ELSE {None}
        pieceMoves ==
            {Normal(TheOne(captureAt(s)), s, captureAt(t), t, None) :
                <<s, t>> \in {st \in Squares \X Squares :
                    /\ mine(st[1])
                    /\ ~mine(st[2])
                    /\ TheOne(pieces[st[1]]).role # Pawn
                    /\ RefAttacks(pieces, st[1], st[2])}}
        pawnCaptures ==
            UNION {{Normal(Pawn, st[1], captureAt(st[2]), st[2], pr) : pr \in promos(st[2])} :
                st \in {x \in Squares \X Squares :
                    /\ pieces[x[1]] = Some(PieceOf(p.turn, Pawn))
                    /\ theirs(x[2])
                    /\ RefAttacks(pieces, x[1], x[2])}}
        pawnPushes ==
            UNION {{Normal(Pawn, s, None, s + 8 * fwd, pr) : pr \in promos(s + 8 * fwd)} :
                s \in {x \in Squares :
                    /\ pieces[x] = Some(PieceOf(p.turn, Pawn))
                    /\ x + 8 * fwd \in Squares
                    /\ pieces[x + 8 * fwd] = None}}
        pawnDoubles ==
            {Normal(Pawn, s, None, s + 16 * fwd, None) :
                s \in {x \in Squares :
                    /\ pieces[x] = Some(PieceOf(p.turn, Pawn))
                    /\ Rank(x) = startRank
                    /\ pieces[x + 8 * fwd] = None
                    /\ pieces[x + 16 * fwd] = None}}
        enPassants ==
            {EnPassant(s, t) :
                <<s, t>> \in {st \in Squares \X p.ep_square :
                    /\ pieces[st[1]] = Some(PieceOf(p.turn, Pawn))
                    /\ RefAttacks(pieces, st[1], st[2])
                    /\ pieces[st[2]] = None
                    /\ pieces[Sq(File(st[2]), Rank(st[1]))] = Some(PieceOf(Not(p.turn), Pawn))}}
        castles ==
            {Castle(k, r) :
                <<k, r>> \in {kr \in Squares \X Squares :
                    /\ pieces[kr[1]] = Some(PieceOf(p.turn, King))
                    /\ \E side \in CastlingSides :
                          /\ castling_rook(p.castling, p.turn, side) = Some(kr[2])
                          /\ (side = KingSide) = (File(kr[2]) > File(kr[1]))
                    /\ LET m == Castle(kr[1], kr[2])
                           travel == (Span(kr[1], RefCastleKingTo(m))
                                        \cup Span(kr[2], RefCastleRookTo(m))) \ {kr[1], kr[2]}
                       IN /\ \A s \in travel : pieces[s] = None
                          /\ \A s \in Span(kr[1], RefCastleKingTo(m)) :
                                 ~RefAttacked(pieces, s, Not(p.turn))}}
    IN pieceMoves \cup pawnCaptures \cup pawnPushes \cup pawnDoubles
         \cup enPassants \cup castles

\* The legal moves: the pseudo-legal moves after which the mover's king is not attacked.
RefLegalMoves(p) ==
    {m \in RefPseudoLegal(p) : ~RefInCheck(RefAfter(p.board.pieces, p.turn, m), p.turn)}

\* from_setup accepts the position seen as a setup.
Accepted(p) == from_setup(SetupOf(p)).errors = {}

(***************************************************************************)
(* C1.  After a legal move is played, the king of the side that moved is   *)
(* not attacked by any enemy piece, an en passant capture generated while  *)
(* in check included.                                                      *)
(***************************************************************************)
C1_MoverNotInCheck ==
    last.op = "play_unchecked" => ~RefInCheck(pos.board.pieces, Not(pos.turn))

(***************************************************************************)
(* C2.  legal_moves into an empty list emits exactly the legal moves of    *)
(* chess: every pseudo-legal move that leaves the mover's king unattacked  *)
(* and nothing else; 20 moves in the opening position.                     *)
(***************************************************************************)
C2_ExactlyTheLegalMoves ==
    (errors = {} /\ ply = 0) =>
        /\ Range(legal_moves(pos, <<>>)) = RefLegalMoves(pos)
        /\ (pos = ChessDefault => Len(legal_moves(pos, <<>>)) = 20)

(***************************************************************************)
(* C3.  The position after a legal move passes validate with an empty      *)
(* error mask.                                                             *)
(***************************************************************************)
C3_ResultValidates ==
    last.op = "play_unchecked" => validate(pos) = {}

\* Moves close to m that differ from it in one field or in their kind.
Perturb(m) ==
    CASE m.kind = "Normal" ->
           {m,
            [m EXCEPT !.capture = IF m.capture = None THEN Some(Pawn) ELSE None],
            [m EXCEPT !.promotion = IF m.promotion = None THEN Some(Queen) ELSE None],
            [m EXCEPT !.role = IF m.role = Queen THEN King ELSE Queen],
            EnPassant(m.from, m.to), Put(m.role, m.to), Castle(m.from, m.to)}
      [] m.kind = "EnPassant" ->
           {m, Normal(Pawn, m.from, None, m.to, None),
            Normal(Pawn, m.from, Some(Pawn), m.to, None),
            EnPassant(m.to, m.from), Put(Pawn, m.to)}
      [] m.kind = "Castle" ->
           {m, Castle(m.rook, m.king), Castle(m.king, m.king),
            Normal(King, m.king, None, m.rook, None),
            Normal(King, m.king, Some(Rook), m.rook, None),
            Normal(King, m.king, None, RefCastleKingTo(m), None)}
      [] OTHER -> {m}

\* The moves is_legal is asked about: those that obey how the pieces move
\* (legal or not), castling with every piece of the mover's back rank as
\* the rook, and everything one field away from those.
MoveUniverse(p) ==
    LET king == TheOne(king_of(p.board, p.turn))
        castles == {Castle(king, r) : r \in {s \in us(p) : Rank(s) = Rank(king)}}
    IN UNION {Perturb(m) : m \in RefPseudoLegal(p) \cup Range(legals(p)) \cup castles}

(***************************************************************************)
(* C4.  is_legal(P, m) is true exactly when m is one of legal_moves(P),    *)
(* for every move value m, also one that no generator would produce.       *)
(***************************************************************************)
C4_IsLegalIffGenerated ==
    (errors = {} /\ HasKing(pos)) =>
        LET moves == legals(pos)
        IN \A m \in MoveUniverse(pos) : is_legal(pos, m) <=> Contains(moves, m)

\* A pinned piece's move off the pin line is asked about and refused.
C4_Witness ==
    /\ errors = {}
    /\ HasKing(pos)
    /\ \E m \in RefPseudoLegal(pos) : /\ m.kind = "Normal"
                                      /\ m.role # King
                                      /\ ~is_legal(pos, m)
    /\ \E m \in Range(legals(pos)) : is_legal(pos, m)

(***************************************************************************)
(* C5.  legal_moves into an empty list emits no move twice.                *)
(***************************************************************************)
C5_NoDuplicates ==
    (errors = {} /\ HasKing(pos)) =>
        LET moves == legals(pos)
        IN \A i, j \in 1..Len(moves) : moves[i] = moves[j] => i = j

\* A position in check and one with castling and en passant have been listed.
C5_Witness ==
    /\ errors = {}
    /\ HasKing(pos)
    /\ Len(legals(pos)) >= 2
    /\ \/ checkers(pos) # {}
       \/ \E m \in Range(legals(pos)) : m.kind \in {"Castle", "EnPassant"}

(***************************************************************************)
(* C6.  For the default position and every position reached from an        *)
(* accepted setup by legal moves, from_setup of the position seen as a     *)
(* Setup returns Ok with a position equal to it in every component: board, *)
(* side to move, castling table, stored en passant target and both clocks. *)
(***************************************************************************)
C6_SetupRoundTrip ==
    (errors = {} /\ (ply > 0 \/ pos = ChessDefault)) =>
        from_setup(SetupOf(pos)) = [pos |-> pos, errors |-> {}]

(***************************************************************************)
(* C6, as the code has it.  from_setup of a position seen as a Setup fails *)
(* with OPPOSITE_CHECK alone when the side not to move is in check, and    *)
(* returns Ok otherwise.  The position it builds has the same board, side  *)
(* to move, castling rooks and clocks; its stored en passant target is the *)
(* value of the ep_square accessor, which is None when no en passant       *)
(* capture is legal; its castling paths are those of the slots that still  *)
(* hold a rook and empty for the others.                                   *)
(***************************************************************************)
C6_SetupRoundTripUpToHiddenState ==
    (errors = {} /\ HasKing(pos)) =>
        LET r == from_setup(SetupOf(pos))
        IN /\ r.errors = IF RefInCheck(pos.board.pieces, Not(pos.turn))
                         THEN {OPPOSITE_CHECK} ELSE {}
           /\ r.pos.board = pos.board
           /\ r.pos.turn = pos.turn
           /\ r.pos.halfmove_clock = pos.halfmove_clock
           /\ r.pos.fullmoves = pos.fullmoves
           /\ r.pos.ep_square = ep_square(pos)
           /\ r.pos.castling.rook = pos.castling.rook
           /\ \A i \in 0..3 :
                 r.pos.castling.path[i] =
                     IF pos.castling.rook[i] # None THEN pos.castling.path[i] ELSE {}

\* A double push that no pawn can answer en passant has been played.
C6_Witness ==
    /\ last.op = "play_unchecked"
    /\ errors = {}
    /\ pos.ep_square # None
    /\ ep_square(pos) = None
    /\ from_setup(SetupOf(pos)).errors = {}

\* The position a move was played in, and whether from_setup accepts it.
Before == TheOne(prev)
PlayedFromAccepted == last.op = "play_unchecked" /\ Accepted(Before)

(***************************************************************************)
(* C7.  For an accepted position P and a legal move m, the string of       *)
(* san(P, m), parsed by San::from_str and bound by to_move(P), is Ok(m).   *)
(***************************************************************************)
C7_SanRoundTrip ==
    PlayedFromAccepted =>
        LET parsed == SanFromBytes(SanToString(san(Before, last.m)))
        IN /\ parsed.tag = "Ok"
           /\ IsOk(SanToMove(parsed.val, Before), last.m)

\* A piece move that needed its origin file written has made the round trip.
C7_Witness ==
    /\ PlayedFromAccepted
    /\ last.m.kind = "Normal"
    /\ last.m.role # Pawn
    /\ san(Before, last.m).file # None
    /\ IsOk(SanToMove(SanFromBytes(SanToString(san(Before, last.m))).val, Before), last.m)

(***************************************************************************)
(* C8.  For an accepted position P and a legal move m (a king capturing a  *)
(* rook that holds a castling right, en passant, promotions and castling   *)
(* included), Uci::from(m) written as a string, parsed by Uci::from_str    *)
(* and bound by to_move(P), is Ok(m).                                      *)
(***************************************************************************)
C8_UciRoundTrip ==
    PlayedFromAccepted =>
        LET parsed == UciFromBytes(UciToString(UciFrom(last.m)))
        IN /\ parsed.tag = "Ok"
           /\ IsOk(UciToMove(parsed.val, Before), last.m)

\* The San s with its origin file, or its origin rank, left out, as read
\* back from its string.
WithoutFile(s) == SanFromBytes(SanToString([s EXCEPT !.file = None]))
WithoutRank(s) == SanFromBytes(SanToString([s EXCEPT !.rank = None]))

(***************************************************************************)
(* C9.  The San of a legal piece move is minimally disambiguated: without  *)
(* its origin file, and likewise without its origin rank, it binds to      *)
(* AmbiguousSan or IllegalSan, three or more pieces of the role reaching   *)
(* the destination included.  (A pawn capture always carries its file.)    *)
(***************************************************************************)
C9_MinimalDisambiguation ==
    PlayedFromAccepted =>
        LET s == san(Before, last.m)
        IN (s.kind = "Normal" /\ s.role # Pawn) =>
              /\ s.file # None =>
                    /\ WithoutFile(s).tag = "Ok"
                    /\ SanToMove(WithoutFile(s).val, Before).tag = "Err"
              /\ s.rank # None =>
                    /\ WithoutRank(s).tag = "Ok"
                    /\ SanToMove(WithoutRank(s).val, Before).tag = "Err"

\* The en passant square of a setup breaks one of the three conditions.
RefEpInvalid(setup) ==
    \E ep \in setup.ep_square :
        LET pieces == setup.board.pieces
            push == fold(setup.turn, -8, 8)
        IN \/ Rank(ep) # fold(setup.turn, 5, 2)
           \/ pieces[ep] # None
           \/ pieces[ep - push] # None
           \/ pieces[ep + push] # Some(PieceOf(Not(setup.turn), Pawn))

(***************************************************************************)
(* C10.  from_setup returns an error mask with INVALID_EP_SQUARE, never    *)
(* Ok, for every setup whose en passant square is off the sixth rank of    *)
(* the side to move, or is occupied, or has the square the pawn came from  *)
(* occupied, or has no enemy pawn on the fifth-rank square behind it,      *)
(* whether or not a pawn of the side to move could capture onto it.        *)
(***************************************************************************)
C10_InvalidEpRejected ==
    (last.op = "from_setup" /\ RefEpInvalid(last.setup)) =>
        INVALID_EP_SQUARE \in errors

\* The colour a slot of the castling table belongs to (`color as usize * 2 + side`).
SlotColor(i) == IF i < 2 THEN Black ELSE White
SlotSide(i) == i % 2

\* The slot i of position p holds a right that the board bears out.
SlotSound(p, i) ==
    \A rk \in p.castling.rook[i] :
        LET color == SlotColor(i)
            kingOpt == king_of(p.board, color)
        IN /\ piece_at(p.board, rk) = Some(PieceOf(color, Rook))
           /\ Rank(rk) = fold(color, 0, 7)
           /\ kingOpt # None
           /\ LET king == TheOne(kingOpt)
              IN /\ Rank(king) = fold(color, 0, 7)
                 /\ (SlotSide(i) = KingSide) = (File(king) < File(rk))
                 /\ king # rk

(***************************************************************************)
(* C11.  In every position reached by legal moves from an accepted setup,  *)
(* each rook square recorded in the castling table holds a rook of the     *)
(* slot's colour on that colour's home rank, and a right that survives a   *)
(* move was recorded before the move with that colour's king on the same   *)
(* square: the king has not left it.                                       *)
(***************************************************************************)
C11_CastlingTableSound ==
    errors = {} =>
        /\ \A i \in 0..3 : SlotSound(pos, i)
        /\ last.op = "play_unchecked" =>
              \A i \in 0..3 :
                  pos.castling.rook[i] # None =>
                      /\ Before.castling.rook[i] = pos.castling.rook[i]
                      /\ king_of(pos.board, SlotColor(i))
                            = king_of(Before.board, SlotColor(i))

\* A move took one right away (the king or a rook moved, or a rook was
\* captured) and left another in the table.
C11_Witness ==
    /\ errors = {}
    /\ last.op = "play_unchecked"
    /\ \E i \in 0..3 : Before.castling.rook[i] # None /\ pos.castling.rook[i] = None
    /\ \E i \in 0..3 : pos.castling.rook[i] # None
    /\ last.m.kind = "Normal" /\ last.m.role = King


\* The Castle moves of the list legal_moves builds.
EmittedCastles(p) == {m \in Range(legals(p)) : m.kind = "Castle"}

(***************************************************************************)
(* C12.  For every accepted setup, Chess960 placements of king and rook on *)
(* the home rank included, a Castle move is emitted only if every square   *)
(* the king passes over or lands on and every square the rook passes over  *)
(* or lands on is unoccupied, the castling king and rook apart.            *)
(***************************************************************************)
C12_CastlePathsClear ==
    (errors = {} /\ HasKing(pos)) =>
        \A m \in EmittedCastles(pos) :
            \A s \in (Span(m.king, RefCastleKingTo(m))
                        \cup Span(m.rook, RefCastleRookTo(m))) \ {m.king, m.rook} :
                pos.board.pieces[s] = None

(***************************************************************************)
(* C13.  A Castle move is never emitted when the king's origin, a square   *)
(* between its origin and its destination, or its destination is attacked  *)
(* by an enemy piece with the king taken off the board, nor when taking    *)
(* the rook off its origin lets an enemy rook or queen on the home rank    *)
(* attack the king's destination.                                          *)
(***************************************************************************)
C13_CastleNotThroughAttack ==
    (errors = {} /\ HasKing(pos)) =>
        \A m \in EmittedCastles(pos) :
            LET pieces == pos.board.pieces
                enemy == Not(pos.turn)
                kto == RefCastleKingTo(m)
                noKing == [pieces EXCEPT ![m.king] = None]
                noRook == [pieces EXCEPT ![m.rook] = None]
            IN /\ \A s \in Span(m.king, kto) : ~RefAttacked(noKing, s, enemy)
               /\ ~\E a \in Squares :
                      /\ Rank(a) = Rank(kto)
                      /\ pieces[a] \in {Some(PieceOf(enemy, Rook)), Some(PieceOf(enemy, Queen))}
                      /\ RefAttacks(noRook, a, kto)

\* One side's right is recorded and its path is free, yet its Castle is held
\* back, while the other side's Castle is emitted.
C13_Witness ==
    /\ errors = {}
    /\ HasKing(pos)
    /\ EmittedCastles(pos) # {}
    /\ \E side \in CastlingSides :
          /\ castling_rook(pos.castling, pos.turn, side) # None
          /\ castling_path(pos.castling, pos.turn, side) \cap occupied(pos.board) = {}
          /\ gen_castling_moves(pos, TheOne(king_of(pos.board, pos.turn)), side) = <<>>


\* The moves handed to play: the moves that obey how the pieces move, the
\* moves of the list, and a drop of each moving piece on its destination.
PlayInputs(p) ==
    LET moves == RefPseudoLegal(p) \cup Range(legals(p))
    IN moves \cup {Put(m.role, m.to) : m \in {x \in moves : x.kind = "Normal"}}

(***************************************************************************)
(* C14.  play(P, m) returns Ok(P') with P' exactly the result of           *)
(* play_unchecked on P with m if is_legal(P, m) holds, and                 *)
(* Err(IllegalMove), with no position, otherwise; every Put move is        *)
(* rejected.  The position a legal move led to is the one play returns.    *)
(***************************************************************************)
C14_PlayChecksLegality ==
    (errors = {} /\ HasKing(pos)) =>
        /\ \A m \in PlayInputs(pos) :
              LET legal == is_legal(pos, m)
                  r == play(pos, m)
              IN /\ r = (IF legal THEN Ok(play_unchecked(pos, m)) ELSE IllegalMove)
                 /\ m.kind = "Put" => r = IllegalMove
        /\ last.op = "play_unchecked" => IsOk(play(Before, last.m), pos)

\* play accepts a move of the list, and refuses a Put and a move of a piece
\* that may not leave its line to the king.
C14_Witness ==
    /\ errors = {}
    /\ HasKing(pos)
    /\ last.op = "play_unchecked"
    /\ \E m \in PlayInputs(pos) : m.kind = "Put" /\ play(pos, m) = IllegalMove
    /\ \E m \in RefPseudoLegal(pos) : m.kind = "Normal" /\ play(pos, m) = IllegalMove
    /\ \E m \in PlayInputs(pos) : play(pos, m).tag = "Ok"


\* The role a move is written with.
MoveRole(m) == IF m.kind = "EnPassant" THEN Pawn ELSE m.role

\* The San::Normal values a position is asked about: for each move that
\* obeys how the pieces move, with and without each origin hint, with the
\* capture flag right and wrong.
SanInputs(p) ==
    UNION {{SanNormal(MoveRole(m), f, r, c, m.to,
                      IF m.kind = "Normal" THEN m.promotion ELSE None) :
              <<f, r, c>> \in {None, Some(File(m.from))} \X {None, Some(Rank(m.from))}
                                \X BOOLEAN} :
           m \in {x \in RefPseudoLegal(p) \cup Range(legals(p)) :
                     x.kind \in {"Normal", "EnPassant"}}}

\* The move m is what the San::Normal s describes.
SanDescribes(s, m) ==
    /\ m.kind \in {"Normal", "EnPassant"}
    /\ MoveRole(m) = s.role
    /\ m.to = s.to
    /\ \A f \in s.file : f = File(m.from)
    /\ \A r \in s.rank : r = Rank(m.from)
    /\ s.capture = (m.kind = "EnPassant" \/ m.capture # None)
    /\ s.promotion = (IF m.kind = "Normal" THEN m.promotion ELSE None)

\* What to_move is to answer when `matching` are the legal moves described.
SanAnswer(matching) ==
    IF matching = {} THEN Err("IllegalSan")
    ELSE IF Cardinality(matching) >= 2 THEN Err("AmbiguousSan")
    ELSE Ok(TheOne(matching))

(***************************************************************************)
(* C15.  San::to_move on a San::Normal returns IllegalSan when no legal    *)
(* move of the role and destination matches the file hint, the rank hint,  *)
(* the capture flag and the promotion, AmbiguousSan when two or more       *)
(* match, and Ok of the sole match when exactly one does; San::Null always *)
(* returns IllegalSan.                                                     *)
(***************************************************************************)
C15_SanToMoveResolves ==
    (errors = {} /\ HasKing(pos)) =>
        /\ \A s \in SanInputs(pos) :
              SanToMove(s, pos)
                = SanAnswer({m \in RefLegalMoves(pos) : SanDescribes(s, m)})
        /\ SanToMove(SanNull, pos) = Err("IllegalSan")


(***************************************************************************)
(* The text machine: a byte string is built one byte at a time and handed  *)
(* to SanPlus::from_bytes.  `last` holds the string and the parser's       *)
(* answer; no position is involved.                                        *)
(***************************************************************************)
MaxText == 5

\* "N" is written as the upper case of role_char(Knight).
TextBytes ==
    {Byte(ch) : ch \in {"a", "1", "x", "=", "+", "#", "@", "O", "-"}}
        \cup {Xor32(role_char(Knight))}

SanPlusParsed(bytes) ==
    [op |-> "SanPlus::from_bytes", bytes |-> bytes, result |-> SanPlusFromBytes(bytes)]

TextInit ==
    /\ pos = ChessDefault
    /\ errors = {}
    /\ prev = None
    /\ ply = 0
    /\ last = SanPlusParsed(<<>>)

TextExtend(b) ==
    /\ Len(last.bytes) < MaxText
    /\ last' = SanPlusParsed(Append(last.bytes, b))
    /\ UNCHANGED <<pos, errors, prev, ply>>

TextNext == \E b \in TextBytes : TextExtend(b)

TextSpec == TextInit /\ [][TextNext]_vars

(***************************************************************************)
(* C16.  For every byte string SanPlus::from_bytes accepts, Display of the *)
(* parsed SanPlus yields exactly that string, the '+' or '#' suffix        *)
(* included.                                                               *)
(***************************************************************************)
C16_SanPlusParseEmit ==
    last.result.tag = "Ok" => SanPlusToString(last.result.val) = last.bytes


(***************************************************************************)
(* C17.  For every accepted position P, role r and square t,               *)
(* san_candidates(r, t) into an empty list yields exactly the moves of     *)
(* legal_moves(P) that are Normal or Put with role r and destination t, or *)
(* EnPassant with destination t when r is Pawn, and never a Castle move:   *)
(* a piece pinned to its king is not a candidate.                          *)
(***************************************************************************)
C17_SanCandidatesAreFilteredLegals ==
    (errors = {} /\ HasKing(pos)) =>
        LET moves == Range(legals(pos))
        IN \A role \in Roles, to \in Squares :
              Range(san_candidates(pos, role, to, <<>>))
                = {m \in moves :
                      \/ m.kind \in {"Normal", "Put"} /\ m.role = role /\ m.to = to
                      \/ m.kind = "EnPassant" /\ role = Pawn /\ m.to = to}

\* Two pieces of a role reach a square, one of them bound to the line to
\* its king, and the other is the only candidate.
C17_Witness ==
    /\ errors = {}
    /\ HasKing(pos)
    /\ \E m \in RefPseudoLegal(pos) :
          /\ m.kind = "Normal"
          /\ m.role \notin {King, Pawn}
          /\ LET candidates == san_candidates(pos, m.role, m.to, <<>>)
             IN /\ ~Contains(candidates, m)
                /\ Len(candidates) = 1


\* The squares holding a piece of one of the roles, read off the board square by square.
SquaresWith(p, roles) ==
    {s \in Squares : \E pc \in p.board.pieces[s] : pc.role \in roles}

(***************************************************************************)
(* C18.  is_insufficient_material(P) is true if and only if the board has  *)
(* no pawns, no rooks and no queens, and either fewer than 3 pieces in     *)
(* total or no knights with all bishops (of both colours) standing on      *)
(* squares of a single colour: king and bishop against king is             *)
(* insufficient, opposite-coloured bishops are not.                        *)
(***************************************************************************)
C18_InsufficientMaterial ==
    errors = {} =>
        (is_insufficient_material(pos) <=>
            /\ SquaresWith(pos, {Pawn, Rook, Queen}) = {}
            /\ \/ Cardinality(SquaresWith(pos, Roles)) < 3
               \/ /\ SquaresWith(pos, {Knight}) = {}
                  /\ \A a, b \in SquaresWith(pos, {Bishop}) :
                        (File(a) + Rank(a)) % 2 = (File(b) + Rank(b)) % 2)

\* Bishops of both colours on squares of one colour, after a move: insufficient.
C18_Witness ==
    /\ errors = {}
    /\ last.op = "play_unchecked"
    /\ is_insufficient_material(pos)
    /\ \E a, b \in SquaresWith(pos, {Bishop}) :
          TheOne(pos.board.pieces[a]).color # TheOne(pos.board.pieces[b]).color


\* The outcome the rules give: mate, else a draw by stalemate or by
\* material, else none; `moves` is the set of legal moves.
RefOutcome(p, moves) ==
    IF RefInCheck(p.board.pieces, p.turn) /\ moves = {}
    THEN Some(Decisive(Not(p.turn)))
    ELSE IF moves = {} \/ is_insufficient_material(p) THEN Some(Draw)
    ELSE None

(***************************************************************************)
(* C19.  For every accepted position P, outcome(P) is Decisive with the    *)
(* side not to move as winner iff the side to move is in check and has no  *)
(* legal move; otherwise Draw iff the side to move has no legal move or    *)
(* material is insufficient; otherwise None.  So outcome(P) is not None    *)
(* exactly when is_game_over(P) is true.                                   *)
(***************************************************************************)
C19_Outcome ==
    (errors = {} /\ HasKing(pos)) =>
        /\ outcome(pos) = RefOutcome(pos, RefLegalMoves(pos))
        /\ (outcome(pos) # None) <=> is_game_over(pos)


(***************************************************************************)
(* C20.  The accessor ep_square() of a Chess position returns the stored   *)
(* en passant target if at least one EnPassant move onto that square is in *)
(* legal_moves, and None otherwise; the stored target is a field the       *)
(* accessor only reads.                                                    *)
(***************************************************************************)
C20_EpSquareAccessor ==
    (errors = {} /\ HasKing(pos)) =>
        ep_square(pos)
          = (IF \E m \in Range(legals(pos)) :
                    m.kind = "EnPassant" /\ Some(m.to) = pos.ep_square
             THEN pos.ep_square
             ELSE None)

\* A target is stored and a pawn attacks it, but the capture is not legal:
\* the accessor hides the target.
C20_Witness ==
    /\ errors = {}
    /\ HasKing(pos)
    /\ pos.ep_square # None
    /\ Len(gen_en_passant(pos.board, pos.turn, pos.ep_square)) > 0
    /\ ep_square(pos) = None

(***************************************************************************)
(* C21.  swap_turn on an accepted position whose side to move is in check  *)
(* returns an error whose mask contains OPPOSITE_CHECK, and no position.   *)
(***************************************************************************)
C21_SwapTurnInCheck ==
    (errors = {} /\ RefInCheck(pos.board.pieces, pos.turn)) =>
        /\ swap_turn(pos).tag = "Err"
        /\ OPPOSITE_CHECK \in swap_turn(pos).val

\* A move gave check, and swap_turn of the position reached is refused.
C21_Witness ==
    /\ errors = {}
    /\ last.op = "play_unchecked"
    /\ RefInCheck(pos.board.pieces, pos.turn)
    /\ swap_turn(pos).tag = "Err"

(***************************************************************************)
(* C30.  swap_turn on an accepted position, or one reached by legal moves, *)
(* whose side to move is not in check returns Ok with a position that has  *)
(* the same board, castling rights, halfmove clock and fullmove number and *)
(* the opposite side to move, also when the position carries an en passant *)
(* target.                                                                 *)
(***************************************************************************)
C30_SwapTurnNotInCheck ==
    (errors = {} /\ ~RefInCheck(pos.board.pieces, pos.turn)) =>
        LET r == swap_turn(pos)
        IN /\ r.tag = "Ok"
           /\ r.val.board = pos.board
           /\ castling_rights(r.val) = castling_rights(pos)
           /\ r.val.halfmove_clock = pos.halfmove_clock
           /\ r.val.fullmoves = pos.fullmoves
           /\ r.val.turn = Not(pos.turn)


(***************************************************************************)
(* C22.  For every accepted position P and legal move m,                   *)
(* is_irreversible(P, m) is true if and only if m is a pawn move, a        *)
(* capture (en passant included), a Castle or a Put, or playing m removes  *)
(* at least one castling right; a quiet non-pawn move that leaves all      *)
(* castling rights intact is reported reversible.                          *)
(***************************************************************************)
C22_Irreversible ==
    (errors = {} /\ last.op = "play_unchecked") =>
        (is_irreversible(Before, last.m) <=>
            \/ last.m.kind \in {"Castle", "EnPassant", "Put"}
            \/ last.m.kind = "Normal" /\ last.m.role = Pawn
            \/ last.m.kind = "Normal" /\ last.m.capture # None
            \/ castling_rights(pos) # castling_rights(Before))

\* A quiet rook move off a castling square: irreversible by the right it costs.
C22_Witness ==
    /\ errors = {}
    /\ last.op = "play_unchecked"
    /\ last.m.kind = "Normal" /\ last.m.role = Rook /\ last.m.capture = None
    /\ is_irreversible(Before, last.m)
    /\ castling_rights(pos) # {}


\* The home square of the mover's king, and the two squares a classical
\* castling move is written to.
HomeKing(p) == fold(p.turn, E1, E8)
ClassicalTargets(p) == {fold(p.turn, G1, G8), fold(p.turn, C1, C8)}
CornerRook(p, to) ==
    IF File(to) = 6 THEN fold(p.turn, H1, H8) ELSE fold(p.turn, A1, A8)

(***************************************************************************)
(* C23.  Uci::to_move on Uci::Normal{from, to, promotion: None}, where     *)
(* from holds the mover's king on e1 (White) or e8 (Black), to is on the   *)
(* home rank exactly two files away and is not a castling-rights square,   *)
(* binds to Castle{king: from, rook: h-file corner} for the g-file and     *)
(* Castle{king: from, rook: a-file corner} for the c-file, returning it    *)
(* iff that castling move is legal and IllegalMove otherwise.  Uci::Null   *)
(* and a promotion given for a non-pawn always return IllegalMove.         *)
(***************************************************************************)
C23_UciClassicalCastle ==
    (errors = {} /\ HasKing(pos)) =>
        /\ piece_at(pos.board, HomeKing(pos)) = Some(PieceOf(pos.turn, King)) =>
              \A to \in ClassicalTargets(pos) \ castling_rights(pos) :
                  LET m == Castle(HomeKing(pos), CornerRook(pos, to))
                  IN UciToMove(UciNormal(HomeKing(pos), to, None), pos)
                       = (IF m \in RefLegalMoves(pos) THEN Ok(m) ELSE IllegalMove)
        /\ UciToMove(UciNull, pos) = IllegalMove
        /\ \A m \in RefPseudoLegal(pos) :
              (m.kind = "Normal" /\ m.role # Pawn) =>
                  \A promotion \in {Some(Queen), Some(Knight)} :
                      UciToMove(UciNormal(m.from, m.to, promotion), pos) = IllegalMove

\* The king stands on its home square; one of the two classical targets
\* binds to a Castle with the corner rook and the other is refused.
C23_Witness ==
    /\ errors = {}
    /\ HasKing(pos)
    /\ piece_at(pos.board, HomeKing(pos)) = Some(PieceOf(pos.turn, King))
    /\ ClassicalTargets(pos) \cap castling_rights(pos) = {}
    /\ \E to \in ClassicalTargets(pos) :
          IsOk(UciToMove(UciNormal(HomeKing(pos), to, None), pos),
               Castle(HomeKing(pos), CornerRook(pos, to)))
    /\ \E to \in ClassicalTargets(pos) :
          UciToMove(UciNormal(HomeKing(pos), to, None), pos) = IllegalMove


(***************************************************************************)
(* C24.  Playing a legal move in an accepted position hands the move to    *)
(* the other side: the side to move after play_unchecked is the opposite   *)
(* of the side to move before, so that over any sequence of legal moves    *)
(* the side to move strictly alternates.                                   *)
(***************************************************************************)
C24_TurnAlternates == [][pos'.turn = Not(pos.turn)]_vars

\* Black has moved and White is to move.
C24_Witness ==
    /\ errors = {}
    /\ last.op = "play_unchecked"
    /\ Before.turn = Black
    /\ pos.turn = White

\* h + 1 of a 32-bit value below 2^32 - 1.
Succ32(h) == IF h[2] = LIMB - 1 THEN <<h[1] + 1, 0>> ELSE <<h[1], h[2] + 1>>

ResetsClock(m) ==
    \/ m.kind = "EnPassant"
    \/ m.kind = "Normal" /\ (m.role = Pawn \/ m.capture # None)

(***************************************************************************)
(* C26.  After play_unchecked(P, m) with halfmove clock h in P, the clock  *)
(* is 0 if m is a Normal pawn move, a Normal capture or an EnPassant       *)
(* move; otherwise it is h + 1, saturating at 2^32 - 1 instead of wrapping *)
(* to 0.                                                                   *)
(***************************************************************************)
C26_HalfmoveClock ==
    (errors = {} /\ last.op = "play_unchecked") =>
        LET h == Before.halfmove_clock
        IN pos.halfmove_clock =
             (IF ResetsClock(last.m) THEN U32(0)
              ELSE IF h = U32_MAX THEN U32_MAX
              ELSE Succ32(h))

\* A quiet move played with the clock at 2^32 - 1.
C26_Witness ==
    /\ errors = {}
    /\ last.op = "play_unchecked"
    /\ ~ResetsClock(last.m)
    /\ Before.halfmove_clock = U32_MAX
    /\ pos.halfmove_clock = U32_MAX

IsDoublePush(m) ==
    /\ m.kind = "Normal"
    /\ m.role = Pawn
    /\ File(m.from) = File(m.to)
    /\ Abs(Rank(m.from) - Rank(m.to)) = 2

(***************************************************************************)
(* C27.  After play_unchecked(P, m) the stored en passant target is the    *)
(* square the pawn passed over if m is a Normal pawn move of exactly two   *)
(* ranks, and is absent after every other move; so a target set by one     *)
(* move is gone after the next unless that move is a double push itself.   *)
(***************************************************************************)
C27_EpTarget ==
    (errors = {} /\ last.op = "play_unchecked") =>
        pos.ep_square =
          (IF IsDoublePush(last.m)
           THEN Some(Sq(File(last.m.to), (Rank(last.m.from) + Rank(last.m.to)) \div 2))
           ELSE None)

\* A double pawn push sets the target; the position before it had one too.
C27_Witness ==
    /\ errors = {}
    /\ last.op = "play_unchecked"
    /\ IsDoublePush(last.m)
    /\ Before.ep_square # None
    /\ pos.ep_square # None
    /\ pos.ep_square # Before.ep_square

\* The right held in slot i is one that move m of the side `mover` removes.
RightRemoved(castling, mover, m, i) ==
    \/ SlotColor(i) = mover /\ m.kind = "Castle"
    \/ SlotColor(i) = mover /\ m.kind = "Normal" /\ m.role = King
    \/ m.kind = "Normal" /\ m.role = Rook /\ castling.rook[i] = Some(m.from)
    \/ m.kind = "Normal" /\ m.capture = Some(Rook) /\ castling.rook[i] = Some(m.to)

(***************************************************************************)
(* C28.  play_unchecked of a legal move never adds a castling right and    *)
(* never changes a stored castling path; it removes exactly both rights of *)
(* the mover on a king move or a Castle, the right whose rook square a     *)
(* Normal rook move leaves, and the right whose rook square is the         *)
(* destination of a Normal move capturing a rook, and no other.            *)
(***************************************************************************)
C28_CastlingRightsFrame ==
    (errors = {} /\ last.op = "play_unchecked") =>
        /\ pos.castling.path = Before.castling.path
        /\ castling_rights(pos) \subseteq castling_rights(Before)
        /\ \A i \in 0..3 :
              pos.castling.rook[i] =
                (IF RightRemoved(Before.castling, Before.turn, last.m, i)
                 THEN None ELSE Before.castling.rook[i])

\* A rook leaves its castling square to capture a rook on its castling
\* square: both rights go, the others stay.
C28_Witness ==
    /\ errors = {}
    /\ last.op = "play_unchecked"
    /\ last.m.kind = "Normal"
    /\ last.m.role = Rook
    /\ last.m.capture = Some(Rook)
    /\ {last.m.from, last.m.to} \subseteq castling_rights(Before)
    /\ castling_rights(pos) = castling_rights(Before) \ {last.m.from, last.m.to}
    /\ castling_rights(pos) # {}

PieceCount(board) == Cardinality({s \in Squares : piece_at(board, s) # None})

(***************************************************************************)
(* C29.  After a legal Castle{king, rook} the mover's king stands on the   *)
(* c-file (rook file below king file) or g-file square of the mover's home *)
(* rank and the rook on the d-file or f-file square; the two origin        *)
(* squares are empty unless they are one of these destinations, every      *)
(* other square is unchanged and so is the number of pieces, also where an *)
(* origin coincides with a destination as in Chess960.                     *)
(***************************************************************************)
C29_CastleBoard ==
    (errors = {} /\ last.op = "play_unchecked" /\ last.m.kind = "Castle") =>
        LET m == last.m
            mover == Before.turn
            home == fold(mover, 0, 7)
            kto == Sq(IF File(m.rook) < File(m.king) THEN 2 ELSE 6, home)
            rto == Sq(IF File(m.rook) < File(m.king) THEN 3 ELSE 5, home)
        IN /\ piece_at(pos.board, kto) = Some(PieceOf(mover, King))
           /\ piece_at(pos.board, rto) = Some(PieceOf(mover, Rook))
           /\ \A s \in {m.king, m.rook} \ {kto, rto} : piece_at(pos.board, s) = None
           /\ \A s \in Squares \ {m.king, m.rook, kto, rto} :
                 piece_at(pos.board, s) = piece_at(Before.board, s)
           /\ PieceCount(pos.board) = PieceCount(Before.board)

\* King and rook have castled onto each other's squares.
C29_Witness ==
    /\ errors = {}
    /\ last.op = "play_unchecked"
    /\ last.m.kind = "Castle"
    /\ piece_at(pos.board, last.m.rook) = Some(PieceOf(Before.turn, King))
    /\ piece_at(pos.board, last.m.king) = Some(PieceOf(Before.turn, Rook))


\* The squares next to s.
Adjacent(s) ==
    {t \in Squares \ {s} : Abs(File(t) - File(s)) <= 1 /\ Abs(Rank(t) - Rank(s)) <= 1}

\* The board with the square s emptied.
Lifted(pieces, s) == [pieces EXCEPT ![s] = None]

\* The squares the king of the side to move may step to: next to it, not
\* held by a friendly piece, and attacked by no enemy piece once the king
\* is taken off the board.
RefKingSteps(p) ==
    LET king == TheOne(king_of(p.board, p.turn))
    IN {t \in Adjacent(king) :
          /\ \A pc \in p.board.pieces[t] : pc.color # p.turn
          /\ ~RefAttacked(Lifted(p.board.pieces, king), t, Not(p.turn))}

(***************************************************************************)
(* C25.  In every accepted position, in check or not, the king moves       *)
(* emitted by legal_moves are exactly the moves to squares adjacent to the *)
(* king, not occupied by a friendly piece, that no enemy piece attacks     *)
(* once the king itself is removed from the occupancy; a king checked by a *)
(* bishop, rook or queen never steps away from the checker along the       *)
(* checking line.                                                          *)
(***************************************************************************)
C25_KingMoves ==
    (errors = {} /\ HasKing(pos)) =>
        LET king == TheOne(king_of(pos.board, pos.turn))
        IN {m \in Range(legals(pos)) : m.kind = "Normal" /\ m.role = King}
             = {Normal(King, king, role_at(pos.board, t), t, None) : t \in RefKingSteps(pos)}

\* A slider gives check and the square behind the king on the checking line
\* is free of friendly pieces and attacked only through the king's square.
C25_Witness ==
    /\ errors = {}
    /\ HasKing(pos)
    /\ LET king == TheOne(king_of(pos.board, pos.turn))
       IN \E s \in Squares, t \in Adjacent(king) :
             /\ \E pc \in pos.board.pieces[s] :
                   pc.color # pos.turn /\ pc.role \in {Bishop, Rook, Queen}
             /\ RefAttacks(pos.board.pieces, s, king)
             /\ \A pc \in pos.board.pieces[t] : pc.color # pos.turn
             /\ ~RefAttacked(pos.board.pieces, t, Not(pos.turn))
             /\ RefAttacks(Lifted(pos.board.pieces, king), s, t)
             /\ \A m \in Range(legals(pos)) : m.kind = "Normal" => m.to # t
             /\ \E m \in Range(legals(pos)) : m.kind = "Normal" /\ m.role = King


====
